---------------------------- MODULE Spec2Model ----------------------------
(***************************************************************************)
(* Model of the card-printing pipeline (package cards): field normalizers, *)
(* duplicate detection against history and within a batch, and the        *)
(* transactional persistence of a processing run.                          *)
(*                                                                         *)
(* Text is a sequence of one-character strings.  Python's None is the      *)
(* value None below; the empty text is << >>.                              *)
(***************************************************************************)
EXTENDS Integers, Sequences, FiniteSets, TLC

VARIABLES
    db,          \* committed content of the sqlite database
    cache,       \* cache[p]: DataProcessor.existing_entries_cache of p
    built,       \* built[p]: DataProcessor p has been constructed
    threshold,   \* Settings.fuzzy_threshold, as <<numerator, denominator>>
    pc,          \* position of the running process() call, "idle" if none
    cur,         \* the processor of the running (or last) process() call
    new_visit_df,     \* process(): the rows of the new-visit table
    reprint_df,  \* process(): the rows of the reprint table
    new_entries, \* process(): entries of the new-visit table
    re_entries,  \* process(): entries of the reprint table
    combined,    \* process(): new_entries + re_entries (the entry objects)
    cross_duplicates, \* process(): result of detect_duplicates
    batch_duplicates, \* process(): result of deduplicate_within_batch
    summary,     \* process(): the summary counts
    entry_records,    \* process(): store id per entry of combined (0: none)
    batch_id,    \* process(): id of the inserted batch (0: none)
    cacheAtCall, \* cache[cur] when the call started
    dbAtCall,    \* db when the call started
    outcome,     \* of the last call: "none", "running", "returned", "raised"
    failed,      \* the store operation that raised in the last call (0: none)
    mapping_objects,  \* process(): the HeaderMappingResult objects passed, the
                 \* first as new_visit_mapping and the last as reprint_mapping
                 \* (one object: the same object for both)
    mappingsAtCall,   \* mapping_objects when the call started
    called,      \* the function last called on its own, "none" if none
    args,        \* the arguments of that call
    ret          \* what that call returned

\* the state of the processors and of the process() call
processVars == <<db, cache, built, threshold, pc, cur, new_visit_df,
                 reprint_df, new_entries, re_entries, combined,
                 cross_duplicates, batch_duplicates, summary, entry_records,
                 batch_id, cacheAtCall, dbAtCall, outcome, failed,
                 mapping_objects, mappingsAtCall>>

\* the state of a call of a function on its own
callVars == <<called, args, ret>>

vars == <<processVars, callVars>>

-----------------------------------------------------------------------------
(* Text primitives (Python str methods used by the normalizers)            *)

None == <<"None">>

Truthy(x) == x # None /\ x # << >>

LowerLetters == <<"a","b","c","d","e","f","g","h","i","j","k","l","m",
                  "n","o","p","q","r","s","t","u","v","w","x","y","z">>

UpperLetters == <<"A","B","C","D","E","F","G","H","I","J","K","L","M",
                  "N","O","P","Q","R","S","T","U","V","W","X","Y","Z">>

Digits == {"0","1","2","3","4","5","6","7","8","9"}

Punctuation == {" ", ",", ".", "-", "/", ":", "_", "'"}

\* U+017F, the long s: a lower-case letter that is not ASCII; its upper
\* case is "S" and its lower case is itself
LongS == "LATIN SMALL LETTER LONG S"

Chars == {LowerLetters[i] : i \in 1..26} \cup {UpperLetters[i] : i \in 1..26}
         \cup Digits \cup Punctuation \cup {LongS}

NonBlank == Chars \ {" "}

LowerSet == {LowerLetters[i] : i \in 1..26}

UpperSet == {UpperLetters[i] : i \in 1..26}

CasedSet == LowerSet \cup UpperSet \cup {LongS}

IsLowerC(c) == c \in LowerSet

IsUpperC(c) == c \in UpperSet

IsCased(c) == c \in CasedSet

IsDigit(c) == c \in Digits

IsSpace(c) == c = " "

lowerOf == [c \in Chars |->
              IF IsUpperC(c)
              THEN LowerLetters[CHOOSE i \in 1..26 : UpperLetters[i] = c]
              ELSE c]

upperOf == [c \in Chars |->
              IF c = LongS THEN "S"
              ELSE IF IsLowerC(c)
              THEN UpperLetters[CHOOSE i \in 1..26 : LowerLetters[i] = c]
              ELSE c]

\* str.lower()
Lower(s) == [i \in 1..Len(s) |-> lowerOf[s[i]]]

\* str.upper()
Upper(s) == [i \in 1..Len(s) |-> upperOf[s[i]]]

\* str.title(): a cased character is upper-cased when the character before
\* it is not cased, lower-cased otherwise; other characters are kept.
Title(s) ==
    [i \in 1..Len(s) |->
        IF IsCased(s[i])
        THEN IF i > 1 /\ IsCased(s[i-1]) THEN lowerOf[s[i]] ELSE upperOf[s[i]]
        ELSE s[i]]

RECURSIVE LStrip(_)
LStrip(s) == IF s # << >> /\ IsSpace(Head(s)) THEN LStrip(Tail(s)) ELSE s

RECURSIVE RStrip(_)
RStrip(s) ==
    IF s # << >> /\ IsSpace(s[Len(s)]) THEN RStrip(SubSeq(s, 1, Len(s)-1)) ELSE s

\* str.strip()
Strip(s) == RStrip(LStrip(s))

\* str.strip(",.") of a token
RECURSIVE StripPunct(_)
StripPunct(s) ==
    IF s # << >> /\ Head(s) \in {",", "."} THEN StripPunct(Tail(s))
    ELSE IF s # << >> /\ s[Len(s)] \in {",", "."}
         THEN StripPunct(SubSeq(s, 1, Len(s)-1))
         ELSE s

\* index of the first character of s at or after i that satisfies the test
\* given as a set of characters, Len(s)+1 when there is none
RECURSIVE FindIn(_, _, _)
FindIn(s, i, set) ==
    IF i > Len(s) THEN Len(s) + 1
    ELSE IF s[i] \in set THEN i ELSE FindIn(s, i + 1, set)

\* str.split(): the maximal runs of non-whitespace characters
RECURSIVE Split(_)
Split(s) ==
    LET t == LStrip(s)
        e == FindIn(t, 1, {" "})
    IN  IF t = << >> THEN << >>
        ELSE <<SubSeq(t, 1, e - 1)>> \o Split(SubSeq(t, e, Len(t)))

\* re.split(r"\s+", s.strip()): as Split, but the empty text gives [""]
ReSplitSpaces(s) == IF Strip(s) = << >> THEN << << >> >> ELSE Split(s)

\* sep.join(parts)
RECURSIVE Join(_, _)
Join(parts, sep) ==
    IF parts = << >> THEN << >>
    ELSE IF Len(parts) = 1 THEN parts[1]
    ELSE parts[1] \o sep \o Join(Tail(parts), sep)

\* length of the run of digits of s that starts at i
RECURSIVE DigitRun(_, _)
DigitRun(s, i) ==
    IF i <= Len(s) /\ IsDigit(s[i]) THEN 1 + DigitRun(s, i + 1) ELSE 0

DigitSeq == <<"0","1","2","3","4","5","6","7","8","9">>

DigitVal(c) == (CHOOSE i \in 1..10 : DigitSeq[i] = c) - 1

AllDigits(s) == \A i \in 1..Len(s) : IsDigit(s[i])

\* int(s) of a text of digits
RECURSIVE ToInt(_)
ToInt(s) ==
    IF s = << >> THEN 0
    ELSE 10 * ToInt(SubSeq(s, 1, Len(s) - 1)) + DigitVal(s[Len(s)])

\* n rendered with at least w digits, zero padded ("%0wd")
RECURSIVE Pad(_, _)
Pad(n, w) ==
    IF w <= 1 /\ n < 10 THEN <<DigitSeq[n + 1]>>
    ELSE Pad(n \div 10, w - 1) \o <<DigitSeq[(n % 10) + 1]>>

\* s.split(c): the pieces of s between the occurrences of the character c
RECURSIVE SplitOn(_, _)
SplitOn(s, c) ==
    LET e == FindIn(s, 1, {c})
    IN  IF e > Len(s) THEN <<s>>
        ELSE <<SubSeq(s, 1, e - 1)>> \o SplitOn(SubSeq(s, e + 1, Len(s)), c)

-----------------------------------------------------------------------------
(* The model: inputs and bounds                                            *)

\* processing runs that may commit
MaxRuns == 2

\* rows of one run, both tables together
MaxBatch == 2

\* rows in table entries
MaxStore == 3

Procs == {"p1", "p2"}

\* Settings.fuzzy_threshold: the default 0.92 and a configured 0.5
FuzzyThresholds == {<<23, 25>>, <<1, 2>>}

\* a complete row with a ZIP+4 and a link that holds no id
RowA ==
    [name     |-> <<"a","n","n"," ","l","e","e">>,
     clinic   |-> <<"m","d">>,
     address  |-> <<"1"," ","a"," ","s","t">>,
     city     |-> <<"l","o","m","i","t","a">>,
     state    |-> <<"c","a">>,
     zip      |-> <<"9","0","7","1","7","-","1","2","3","4">>,
     datetime |-> <<"2","0","2","5","-","0","2","-","2","0">>,
     heally   |-> <<"h","/","2","2">>]

\* the person of RowA written differently, city and state left to the
\* ZIP table
RowB ==
    [name     |-> <<"L","e","e",","," ","A","n","n">>,
     clinic   |-> <<"m","d">>,
     address  |-> <<"1"," ","A"," ","S","T",".">>,
     city     |-> <<>>,
     state    |-> <<>>,
     zip      |-> <<"9","0","7","1","7"," ","1","2","3","4">>,
     datetime |-> <<"2","/","3","/","2","0","2","5"," ","7",":","0","5">>,
     heally   |-> <<"x","/","1","4","8","1","4","8","0">>]

\* a near miss of RowA's name, with the link id of RowB in another column
RowC ==
    [name     |-> <<"a","n","n","e"," ","l","e","e">>,
     clinic   |-> <<"m","d"," ","1","4","8","1","4","8","0">>,
     address  |-> <<"1"," ","a"," ","s","t">>,
     city     |-> <<>>,
     state    |-> <<"n","v">>,
     zip      |-> <<"9","0","7","1","7">>,
     datetime |-> <<"s","o","o","n">>,
     heally   |-> <<>>]

\* a row without a name, at the address of RowA, with the link id of RowB
RowD ==
    [name     |-> <<>>,
     clinic   |-> <<"m","d">>,
     address  |-> <<"1"," ","a"," ","s","t">>,
     city     |-> <<"r","e","n","o">>,
     state    |-> <<"N","e","v","a","d","a">>,
     zip      |-> <<"b","a","d">>,
     datetime |-> None,
     heally   |-> <<"1","4","8","1","4","8","0">>]

RawRows == {RowA, RowB, RowC, RowD}

\* the header mapping of the tables above (every column mapped)
FullMapping ==
    [mapping |-> [name |-> "name", clinic_name |-> "clinic",
                  address |-> "address", city |-> "city", state |-> "state",
                  zip |-> "zip", date_time |-> "datetime",
                  heally_link |-> "heally"],
     missing |-> << >>,
     extras  |-> << >>]

Mappings == {FullMapping.mapping}

SeqsUpTo(S, n) == UNION {[1..k -> S] : k \in 0..n}

Tables == SeqsUpTo(RawRows, MaxBatch)

EmptyStore == [batches |-> << >>, entries |-> << >>, duplicate_matches |-> << >>,
               print_jobs |-> << >>]

-----------------------------------------------------------------------------
(* cards/utils.py                                                          *)

\* NAME_COMMA_RE = ^(?P<last>[^,]+),\s*(?P<first>[^,]+)(?:,?\s*(?P<middle>.+))?$
\* matched against a stripped text: the groups of the match, or matched FALSE.
\*   last   the text before the first comma (at least one character);
\*   first  the text after it, blanks skipped, up to the second comma; when
\*          only blanks stand between the two commas, the last of them;
\*   middle None without a second comma; else the text after the second
\*          comma, blanks skipped; "," when the text ends with that comma.
NameCommaMatch(s) ==
    LET n  == Len(s)
        c1 == FindIn(s, 1, {","})
        c2 == FindIn(s, c1 + 1, {","})
        sp == FindIn(s, c1 + 1, NonBlank)
        fs == IF sp < c2 THEN sp ELSE c2 - 1
        m  == FindIn(s, c2 + 1, NonBlank)
        no == [matched |-> FALSE, last |-> << >>, first |-> << >>, middle |-> None]
    IN  IF c1 > n \/ c1 = 1 \/ c1 = n \/ c2 = c1 + 1 THEN no
        ELSE [matched |-> TRUE,
              last    |-> SubSeq(s, 1, c1 - 1),
              first   |-> SubSeq(s, fs, c2 - 1),
              middle  |-> IF c2 > n THEN None
                          ELSE IF m <= n THEN SubSeq(s, m, n)
                          ELSE <<",">>]

TitleAll(tokens) == [i \in 1..Len(tokens) |-> Title(tokens[i])]

\* normalize_name(name) -> (name, reasons)
normalize_name(name0) ==
    LET parts(match) ==
            <<Title(match.first)>>
            \o (IF Truthy(match.middle)
                THEN <<Join(TitleAll(Split(match.middle)), <<" ">>)>>
                ELSE << >>)
            \o <<Title(match.last)>>
        normalized(name, match) ==
            IF name = << >> THEN << << >>, <<"missing_name">> >>
            ELSE IF match.matched
            THEN <<Join(parts(match), <<" ">>), <<"name_flipped">> >>
            ELSE <<Join(TitleAll(Split(name)), <<" ">>), << >> >>
    IN  normalized(Strip(name0), NameCommaMatch(Strip(name0)))

\* HEALLY_ID_RE = (\d{6,}) searched in s: the first maximal run of at least
\* six digits, or None
RECURSIVE HeallyIdSearch(_, _)
HeallyIdSearch(s, i) ==
    IF i > Len(s) THEN None
    ELSE IF DigitRun(s, i) >= 6 THEN SubSeq(s, i, i + DigitRun(s, i) - 1)
    ELSE HeallyIdSearch(s, i + 1 + DigitRun(s, i))

HeallyLinkPrefix ==
    <<"h","t","t","p","s",":","/","/","g","e","t","h","e","a","l","l","y",".","c","o","m","/","s","u","p","e","r","_","a","d","m","i","n","/","p","a","t","i","e","n","t","_","u","s","e","r","s","/">>

\* the values of a raw row, in column order
RawValues(raw) ==
    <<raw.name, raw.clinic, raw.address, raw.city, raw.state, raw.zip,
      raw.datetime, raw.heally>>

\* " ".join(str(value) for value in raw.values() if isinstance(value, str))
SearchSpace(raw) ==
    Join(SelectSeq(RawValues(raw), LAMBDA v : v # None), <<" ">>)

\* an extraction that returns the link field as it was given
extract_heally_untrimmed(link, raw) ==
    IF Truthy(link) /\ Truthy(Strip(link))
    THEN <<link, HeallyIdSearch(Strip(link), 1), << >> >>
    ELSE IF HeallyIdSearch(SearchSpace(raw), 1) # None
    THEN <<HeallyLinkPrefix \o HeallyIdSearch(SearchSpace(raw), 1),
           HeallyIdSearch(SearchSpace(raw), 1), <<"constructed_heally_link">> >>
    ELSE <<<<"N","/","A">>, None, <<"missing_heally_link">> >>

\* extract_heally(link, raw) -> (link, heally_id, reasons)
extract_heally(link, raw) ==
    LET constructed(found) ==
            IF found # None
            THEN <<HeallyLinkPrefix \o found, found,
                   <<"constructed_heally_link">> >>
            ELSE <<<<"N","/","A">>, None, <<"missing_heally_link">> >>
    IN  IF Truthy(link) /\ Truthy(Strip(link))
        THEN <<Strip(link), HeallyIdSearch(Strip(link), 1), << >> >>
        ELSE constructed(HeallyIdSearch(SearchSpace(raw), 1))

\* DATETIME_FORMATS: order of the date fields, their separator, and the
\* number of time fields (3: %H:%M:%S, 2: %H:%M, 0: none)
DATETIME_FORMATS ==
    << [date |-> "YMD", sep |-> "-", time |-> 3],
       [date |-> "YMD", sep |-> "-", time |-> 2],
       [date |-> "YMD", sep |-> "-", time |-> 0],
       [date |-> "MDY", sep |-> "/", time |-> 3],
       [date |-> "MDY", sep |-> "/", time |-> 2],
       [date |-> "MDY", sep |-> "/", time |-> 0],
       [date |-> "YMD", sep |-> "/", time |-> 3],
       [date |-> "YMD", sep |-> "/", time |-> 2],
       [date |-> "YMD", sep |-> "/", time |-> 0],
       [date |-> "MDY", sep |-> "-", time |-> 3],
       [date |-> "MDY", sep |-> "-", time |-> 2],
       [date |-> "MDY", sep |-> "-", time |-> 0] >>

\* a strptime numeric field: lo..hi digits with a value in vlo..vhi
NumField(s, lo, hi, vlo, vhi) ==
    /\ Len(s) >= lo /\ Len(s) <= hi
    /\ AllDigits(s)
    /\ ToInt(s) >= vlo /\ ToInt(s) <= vhi

DaysInMonth(y, m) ==
    IF m = 2
    THEN IF (y % 4 = 0 /\ y % 100 # 0) \/ y % 400 = 0 THEN 29 ELSE 28
    ELSE IF m \in {4, 6, 9, 11} THEN 30 ELSE 31

\* datetime.strptime(text, fmt): the parsed value as <<year, month, day,
\* hour, minute, second>>, or None for ValueError
\* (date texts without a blank inside the date part)
Strptime(text, fmt) ==
    LET \* words: the blank-separated parts of the text; dg, tg: the fields
        \* of its date and of its time
        fields(words, dg, tg) ==
            LET ys == IF fmt.date = "YMD" THEN dg[1] ELSE dg[3]
                ms == IF fmt.date = "YMD" THEN dg[2] ELSE dg[1]
                ds == IF fmt.date = "YMD" THEN dg[3] ELSE dg[2]
            IN  IF /\ Len(words) = (IF fmt.time = 0 THEN 1 ELSE 2)
                   /\ Len(dg) = 3
                   /\ Len(tg) = fmt.time
                   /\ NumField(ys, 4, 4, 1, 9999)
                   /\ NumField(ms, 1, 2, 1, 12)
                   /\ NumField(ds, 1, 2, 1, 31)
                   /\ ToInt(ds) <= DaysInMonth(ToInt(ys), ToInt(ms))
                   /\ fmt.time >= 2 => /\ NumField(tg[1], 1, 2, 0, 23)
                                       /\ NumField(tg[2], 1, 2, 0, 59)
                   /\ fmt.time = 3 => NumField(tg[3], 1, 2, 0, 59)
                THEN <<ToInt(ys), ToInt(ms), ToInt(ds),
                       IF fmt.time >= 2 THEN ToInt(tg[1]) ELSE 0,
                       IF fmt.time >= 2 THEN ToInt(tg[2]) ELSE 0,
                       IF fmt.time = 3 THEN ToInt(tg[3]) ELSE 0>>
                ELSE None
        parts(words) ==
            fields(words,
                   IF words = << >> THEN << >> ELSE SplitOn(words[1], fmt.sep),
                   IF Len(words) = 2 THEN SplitOn(words[2], ":") ELSE << >>)
    IN  parts(Split(text))

\* the first format of DATETIME_FORMATS, from the i-th on, that parses text
RECURSIVE FirstParse(_, _)
FirstParse(text, i) ==
    LET try(parsed) == IF parsed # None THEN parsed
                       ELSE FirstParse(text, i + 1)
    IN  IF i > Len(DATETIME_FORMATS) THEN None
        ELSE try(Strptime(text, DATETIME_FORMATS[i]))

\* the keys ZoneInfo() resolves
KnownZones == {"America/Los_Angeles", "America/New_York", "UTC"}

\* parse_datetime(value, timezone) -> (datetime, reasons); replace(tzinfo=tz)
\* followed by astimezone(tz) and replace(tzinfo=None) keeps the wall time
parse_datetime(value, timezone) ==
    LET localized(parsed) ==
            IF parsed = None THEN <<None, <<"invalid_datetime">> >>
            ELSE IF timezone \in KnownZones THEN <<parsed, << >> >>
            ELSE <<parsed, <<"timezone_error">> >>
    IN  IF ~Truthy(value) THEN <<None, <<"missing_datetime">> >>
        ELSE localized(FirstParse(Strip(value), 1))

\* format_datetime(dt): "%Y-%m-%d %H:%M:%S", "" for None
format_datetime(dt) ==
    IF dt = None THEN << >>
    ELSE Pad(dt[1], 4) \o <<"-">> \o Pad(dt[2], 2) \o <<"-">>
         \o Pad(dt[3], 2) \o <<" ">> \o Pad(dt[4], 2) \o <<":">>
         \o Pad(dt[5], 2) \o <<":">> \o Pad(dt[6], 2)

\* a key that also tells the lists apart
normalized_key_per_list(entry) ==
    <<Lower(entry.name), Lower(entry.address), Lower(entry.city),
      Lower(entry.state), entry.zip_code, entry.list_source>>

\* normalized_key(entry)
normalized_key(entry) ==
    <<Lower(entry.name), Lower(entry.address), Lower(entry.city),
      Lower(entry.state), entry.zip_code>>

-----------------------------------------------------------------------------
(* cards/address.py                                                        *)

ABBREVIATIONS ==
    { <<<<"s","t">>, <<"S","t","r","e","e","t">>>>,
      <<<<"a","v","e">>, <<"A","v","e","n","u","e">>>>,
      <<<<"b","l","v","d">>, <<"B","o","u","l","e","v","a","r","d">>>>,
      <<<<"d","r">>, <<"D","r","i","v","e">>>>,
      <<<<"l","n">>, <<"L","a","n","e">>>>,
      <<<<"p","l">>, <<"P","l","a","c","e">>>>,
      <<<<"r","d">>, <<"R","o","a","d">>>>,
      <<<<"h","w","y">>, <<"H","i","g","h","w","a","y">>>>,
      <<<<"p","k","w","y">>, <<"P","a","r","k","w","a","y">>>>,
      <<<<"c","t">>, <<"C","o","u","r","t">>>>,
      <<<<"c","i","r">>, <<"C","i","r","c","l","e">>>>,
      <<<<"t","r","l">>, <<"T","r","a","i","l">>>>,
      <<<<"w","a","y">>, <<"W","a","y">>>> }

STATE_ABBREVS ==
    { <<<<"a","l","a","b","a","m","a">>, <<"A","L">>>>,
      <<<<"a","l","a","s","k","a">>, <<"A","K">>>>,
      <<<<"a","r","i","z","o","n","a">>, <<"A","Z">>>>,
      <<<<"a","r","k","a","n","s","a","s">>, <<"A","R">>>>,
      <<<<"c","a","l","i","f","o","r","n","i","a">>, <<"C","A">>>>,
      <<<<"c","o","l","o","r","a","d","o">>, <<"C","O">>>>,
      <<<<"c","o","n","n","e","c","t","i","c","u","t">>, <<"C","T">>>>,
      <<<<"d","e","l","a","w","a","r","e">>, <<"D","E">>>>,
      <<<<"f","l","o","r","i","d","a">>, <<"F","L">>>>,
      <<<<"g","e","o","r","g","i","a">>, <<"G","A">>>>,
      <<<<"h","a","w","a","i","i">>, <<"H","I">>>>,
      <<<<"i","d","a","h","o">>, <<"I","D">>>>,
      <<<<"i","l","l","i","n","o","i","s">>, <<"I","L">>>>,
      <<<<"i","n","d","i","a","n","a">>, <<"I","N">>>>,
      <<<<"i","o","w","a">>, <<"I","A">>>>,
      <<<<"k","a","n","s","a","s">>, <<"K","S">>>>,
      <<<<"k","e","n","t","u","c","k","y">>, <<"K","Y">>>>,
      <<<<"l","o","u","i","s","i","a","n","a">>, <<"L","A">>>>,
      <<<<"m","a","i","n","e">>, <<"M","E">>>>,
      <<<<"m","a","r","y","l","a","n","d">>, <<"M","D">>>>,
      <<<<"m","a","s","s","a","c","h","u","s","e","t","t","s">>, <<"M","A">>>>,
      <<<<"m","i","c","h","i","g","a","n">>, <<"M","I">>>>,
      <<<<"m","i","n","n","e","s","o","t","a">>, <<"M","N">>>>,
      <<<<"m","i","s","s","i","s","s","i","p","p","i">>, <<"M","S">>>>,
      <<<<"m","i","s","s","o","u","r","i">>, <<"M","O">>>>,
      <<<<"m","o","n","t","a","n","a">>, <<"M","T">>>>,
      <<<<"n","e","b","r","a","s","k","a">>, <<"N","E">>>>,
      <<<<"n","e","v","a","d","a">>, <<"N","V">>>>,
      <<<<"n","e","w"," ","h","a","m","p","s","h","i","r","e">>, <<"N","H">>>>,
      <<<<"n","e","w"," ","j","e","r","s","e","y">>, <<"N","J">>>>,
      <<<<"n","e","w"," ","m","e","x","i","c","o">>, <<"N","M">>>>,
      <<<<"n","e","w"," ","y","o","r","k">>, <<"N","Y">>>>,
      <<<<"n","o","r","t","h"," ","c","a","r","o","l","i","n","a">>, <<"N","C">>>>,
      <<<<"n","o","r","t","h"," ","d","a","k","o","t","a">>, <<"N","D">>>>,
      <<<<"o","h","i","o">>, <<"O","H">>>>,
      <<<<"o","k","l","a","h","o","m","a">>, <<"O","K">>>>,
      <<<<"o","r","e","g","o","n">>, <<"O","R">>>>,
      <<<<"p","e","n","n","s","y","l","v","a","n","i","a">>, <<"P","A">>>>,
      <<<<"r","h","o","d","e"," ","i","s","l","a","n","d">>, <<"R","I">>>>,
      <<<<"s","o","u","t","h"," ","c","a","r","o","l","i","n","a">>, <<"S","C">>>>,
      <<<<"s","o","u","t","h"," ","d","a","k","o","t","a">>, <<"S","D">>>>,
      <<<<"t","e","n","n","e","s","s","e","e">>, <<"T","N">>>>,
      <<<<"t","e","x","a","s">>, <<"T","X">>>>,
      <<<<"u","t","a","h">>, <<"U","T">>>>,
      <<<<"v","e","r","m","o","n","t">>, <<"V","T">>>>,
      <<<<"v","i","r","g","i","n","i","a">>, <<"V","A">>>>,
      <<<<"w","a","s","h","i","n","g","t","o","n">>, <<"W","A">>>>,
      <<<<"w","e","s","t"," ","v","i","r","g","i","n","i","a">>, <<"W","V">>>>,
      <<<<"w","i","s","c","o","n","s","i","n">>, <<"W","I">>>>,
      <<<<"w","y","o","m","i","n","g">>, <<"W","Y">>>> }

USPS_STATES == {p[2] : p \in STATE_ABBREVS}

InTable(table, key) == \E p \in table : p[1] = key

Lookup(table, key) == (CHOOSE p \in table : p[1] = key)[2]

\* load_zip_db(): the ZIP -> (city, state) table
ZipDb ==
    { <<<<"9","0","7","1","7">>, <<<<"L","o","m","i","t","a">>, <<"C","A">>>> >> }

\* normalize_address(address)
normalize_address(address) ==
    LET tokens == ReSplitSpaces(address)
        part(token) ==
            LET lower == StripPunct(Lower(token))
            IN  IF InTable(ABBREVIATIONS, lower)
                THEN Lookup(ABBREVIATIONS, lower)
                ELSE Title(token)
    IN  Join([i \in 1..Len(tokens) |-> part(tokens[i])], <<" ">>)

\* a normalize_state that does not strip its argument
normalize_state_verbatim(state0) ==
    IF Len(Strip(state0)) = 2 /\ Upper(Strip(state0)) \in USPS_STATES
    THEN <<Upper(Strip(state0)), << >> >>
    ELSE IF InTable(STATE_ABBREVS, Lower(Strip(state0)))
    THEN <<Lookup(STATE_ABBREVS, Lower(Strip(state0))),
           <<"state_name_converted">> >>
    ELSE <<Upper(state0), <<"invalid_state">> >>

\* a normalization that returns no state for a text it does not know
normalize_state_rejecting(state0) ==
    IF Len(Strip(state0)) = 2 /\ Upper(Strip(state0)) \in USPS_STATES
    THEN <<Upper(Strip(state0)), << >> >>
    ELSE IF InTable(STATE_ABBREVS, Lower(Strip(state0)))
    THEN <<Lookup(STATE_ABBREVS, Lower(Strip(state0))),
           <<"state_name_converted">> >>
    ELSE << << >>, <<"invalid_state">> >>

\* normalize_state(state) -> (state, reasons)
normalize_state(state0) ==
    LET state      == Strip(state0)
        normalized == Lower(state)
    IN  IF Len(state) = 2 /\ Upper(state) \in USPS_STATES
        THEN <<Upper(state), << >> >>
        ELSE IF InTable(STATE_ABBREVS, normalized)
        THEN <<Lookup(STATE_ABBREVS, normalized), <<"state_name_converted">> >>
        ELSE <<Upper(state), <<"invalid_state">> >>

\* ZIP_RE = ^(?P<zip5>\d{5})(?:[- ]?(?P<zip4>\d{4}))?$ : <<zip5, zip4>> of
\* the match, None when the text does not match
ZipMatch(s) ==
    IF Len(s) = 5 /\ AllDigits(s) THEN <<s, None>>
    ELSE IF Len(s) = 9 /\ AllDigits(s)
    THEN <<SubSeq(s, 1, 5), SubSeq(s, 6, 9)>>
    ELSE IF /\ Len(s) = 10
            /\ AllDigits(SubSeq(s, 1, 5))
            /\ s[6] \in {"-", " "}
            /\ AllDigits(SubSeq(s, 7, 10))
    THEN <<SubSeq(s, 1, 5), SubSeq(s, 7, 10)>>
    ELSE None

\* a normalize_zip that takes a text of blanks for a missing zip
normalize_zip_blank_missing(zip_code) ==
    IF Strip(zip_code) = << >> THEN <<None, None, <<"missing_zip">> >>
    ELSE IF ZipMatch(Strip(zip_code)) = None
    THEN <<None, None, <<"invalid_zip">> >>
    ELSE <<ZipMatch(Strip(zip_code))[1], ZipMatch(Strip(zip_code))[2], << >> >>

\* normalize_zip(zip_code) -> (zip5, zip4, reasons)
normalize_zip(zip_code) ==
    LET groups(match) ==
            IF match = None THEN <<None, None, <<"invalid_zip">> >>
            ELSE <<match[1], match[2], << >> >>
    IN  IF zip_code = << >> THEN <<None, None, <<"missing_zip">> >>
        ELSE groups(ZipMatch(Strip(zip_code)))

\* a lookup that finds nothing
infer_nothing(zip5) == None

\* infer_city_state_from_zip(zip5): (city, state) or None
infer_city_state_from_zip(zip5) ==
    IF InTable(ZipDb, zip5) THEN Lookup(ZipDb, zip5) ELSE None

\* normalize_city(city)
normalize_city(city) == Title(Strip(city))

\* the reason codes in ascending (code point) order
ReasonOrder ==
    <<"constructed_heally_link", "inferred_city_state_from_zip",
      "inferred_state_from_zip", "invalid_datetime", "invalid_state",
      "invalid_zip", "missing_city", "missing_core_fields",
      "missing_datetime", "missing_heally_link", "missing_name",
      "missing_state", "missing_zip", "name_flipped",
      "state_name_converted", "timezone_error", "zip_not_found",
      "zip_state_mismatch">>

Elems(seq) == {seq[i] : i \in 1..Len(seq)}

\* sorted(set(reasons))
SortedSet(reasons) == SelectSeq(ReasonOrder, LAMBDA r : r \in Elems(reasons))

\* validate_and_normalize_address(address, city, state, zip_code)
validate_and_normalize_address(address, city, state, zip_code) ==
    LET \* lines 198-206
        result(city2, state3, z, reasons) ==
            [address  |-> normalize_address(address),
             city     |-> city2,
             state    |-> state3,
             zip5     |-> IF Truthy(z[1]) THEN z[1] ELSE << >>,
             zip4     |-> z[2],
             inferred |-> \/ "inferred_city_state_from_zip" \in Elems(reasons)
                          \/ "inferred_state_from_zip" \in Elems(reasons),
             reasons  |-> SortedSet(reasons)]
        \* lines 173-206, from z = normalize_zip(zip_code), the city of lines
        \* 164-165, st = (state, reasons) of lines 166-171 and the entry of
        \* the ZIP table for zip5
        resolved(z, city0, st, inferred) ==
            LET zip5     == z[1]
                state1   == st[1]
                byZip    == ~Truthy(city0) /\ Truthy(zip5)
                \* lines 173-187
                city2    == IF byZip
                            THEN IF inferred # None THEN inferred[1] ELSE city0
                            ELSE IF ~Truthy(city0) THEN city0
                            ELSE normalize_city(city0)
                state2   == IF byZip /\ inferred # None /\ ~Truthy(state1)
                            THEN inferred[2] ELSE state1
                r2       == IF byZip
                            THEN IF inferred # None
                                 THEN (IF Truthy(state1) /\ state1 # inferred[2]
                                       THEN <<"zip_state_mismatch">> ELSE << >>)
                                      \o <<"inferred_city_state_from_zip">>
                                 ELSE <<"zip_not_found">>
                            ELSE IF ~Truthy(city0) THEN <<"missing_city">>
                            ELSE << >>
                \* lines 189-196
                fill     == ~Truthy(state2) /\ Truthy(zip5) /\ inferred # None
                state3   == IF fill THEN inferred[2] ELSE state2
                r3       == (IF fill THEN <<"inferred_state_from_zip">> ELSE << >>)
                            \o (IF ~Truthy(state3) THEN <<"missing_state">>
                                ELSE << >>)
            IN  result(city2, state3, z, z[3] \o st[2] \o r2 \o r3)
        withZip(z) ==
            resolved(z,
                     IF Truthy(city) THEN normalize_city(city) ELSE << >>,
                     IF Truthy(Strip(state)) THEN normalize_state(Strip(state))
                     ELSE << << >>, <<"missing_state">> >>,
                     IF Truthy(z[1]) THEN infer_city_state_from_zip(z[1])
                     ELSE None)
    IN  withZip(normalize_zip(zip_code))

-----------------------------------------------------------------------------
(* cards/processing.py: DataProcessor                                      *)

\* marks a key that a dict does not hold (dict.get gives None for it)
Unset == "unset"

\* an absent mapping entry (mapping.get gives None, which is falsy)
Unmapped == ""

\* str(value)
Str(v) == IF v = None THEN <<"N","o","n","e">> ELSE v

\* Settings.timezone
Timezone == "America/Los_Angeles"

ListSource(list_type) == IF list_type = "new_visit" THEN "New Visit" ELSE "Reprint"

\* a rejection that tests the address alone
ValidationStatusByAddress(normalized_name, address, reasons) ==
    IF ~Truthy(address)
    THEN <<"rejected", reasons \o <<"missing_core_fields">> >>
    ELSE <<IF reasons = << >> THEN "ok" ELSE "attention", reasons>>

\* normalize_rows, lines 146-149: (validation_status, reasons)
ValidationStatus(normalized_name, address, reasons) ==
    IF ~Truthy(normalized_name) \/ ~Truthy(address)
    THEN <<"rejected", reasons \o <<"missing_core_fields">> >>
    ELSE <<IF reasons = << >> THEN "ok" ELSE "attention", reasons>>

\* the body of the loop of normalize_rows: the entry of one row
NormalizeRow(raw, list_type, mapping) ==
    LET field(canonical) ==
            IF mapping[canonical] # Unmapped THEN Str(raw[mapping[canonical]])
            ELSE << >>
        value(canonical) ==
            IF mapping[canonical] # Unmapped THEN raw[mapping[canonical]]
            ELSE None
        \* lines 140-180, from the results of the four normalizers and the
        \* clinic name
        entry(n, a, h, d, clinic_name) ==
            LET validated == ValidationStatus(n[1], a.address,
                                 n[2] \o a.reasons \o h[3] \o d[2])
                clinic    == IF Truthy(clinic_name) THEN Title(clinic_name)
                             ELSE << >>
            IN  [name          |-> n[1],
                 clinic_name   |-> clinic,
                 address       |-> a.address,
                 city          |-> a.city,
                 state         |-> a.state,
                 zip_code      |-> IF Truthy(a.zip4)
                                   THEN a.zip5 \o <<"-">> \o a.zip4
                                   ELSE a.zip5,
                 heally_link   |-> h[1],
                 heally_id     |-> h[2],
                 date_time     |-> d[1],
                 list_source   |-> ListSource(list_type),
                 raw           |-> raw,
                 normalized_payload |->
                     [name        |-> n[1],
                      clinic_name |-> clinic,
                      address     |-> a.address,
                      city        |-> a.city,
                      state       |-> a.state,
                      zip         |-> a.zip5,
                      zip4        |-> a.zip4,
                      heally_link |-> h[1],
                      heally_id   |-> h[2],
                      date_time   |-> format_datetime(d[1]),
                      list_source |-> ListSource(list_type),
                      duplicate   |-> Unset],
                 validation_status   |-> validated[1],
                 uncertainty_reasons |-> SortedSet(validated[2])]
    IN  entry(normalize_name(field("name")),
              validate_and_normalize_address(field("address"), field("city"),
                                             field("state"), field("zip")),
              extract_heally(value("heally_link"), raw),
              parse_datetime(value("date_time"), Timezone),
              field("clinic_name"))

ListTypes == {"new_visit", "reprint"}

\* NormalizeRow, tabulated over the rows and mappings of the model
NormalizeRowTable ==
    [list_type \in ListTypes, mapping \in Mappings, raw \in RawRows |->
        NormalizeRow(raw, list_type, mapping)]

\* the entries of the rows of the model
KnownEntries ==
    {NormalizeRow(raw, "new_visit", mapping) :
        raw \in RawRows, mapping \in Mappings}

\* a normalization that leaves rejected rows out
normalize_rows_accepted(df, list_type, header_mapping) ==
    SelectSeq([i \in 1..Len(df) |->
                  NormalizeRow(df[i], list_type, header_mapping.mapping)],
              LAMBDA entry : entry.validation_status # "rejected")

\* normalize_rows(df, list_type, header_mapping): the entries, in row order
normalize_rows(df, list_type, header_mapping) ==
    [i \in 1..Len(df) |->
        IF df[i] \in RawRows /\ header_mapping.mapping \in Mappings
        THEN NormalizeRowTable[list_type, header_mapping.mapping, df[i]]
        ELSE NormalizeRow(df[i], list_type, header_mapping.mapping)]

\* the names and addresses of the entries of the model
KnownTexts == UNION {{e.name, e.address} : e \in KnownEntries}

-----------------------------------------------------------------------------
(* cards/utils.py: similarity                                              *)

\* SequenceMatcher (difflib), for texts under 200 characters where no
\* element is treated as popular.  Positions are 1-based, hi exclusive.
RECURSIVE CommonLen(_, _, _, _, _, _)
CommonLen(a, b, i, j, ahi, bhi) ==
    IF i < ahi /\ j < bhi /\ a[i] = b[j]
    THEN 1 + CommonLen(a, b, i + 1, j + 1, ahi, bhi)
    ELSE 0

\* find_longest_match: <<i, j, k>> with k maximal, then i minimal, then j
\* minimal; <<alo, blo, 0>> when nothing matches
find_longest_match(a, b, alo, ahi, blo, bhi) ==
    LET blocks == {<<i, j, CommonLen(a, b, i, j, ahi, bhi)>> :
                      i \in alo..(ahi - 1), j \in blo..(bhi - 1)}
        found  == {m \in blocks : m[3] > 0}
        best   == CHOOSE m \in found : \A o \in found :
                      \/ m[3] > o[3]
                      \/ m[3] = o[3] /\ m[1] < o[1]
                      \/ m[3] = o[3] /\ m[1] = o[1] /\ m[2] <= o[2]
    IN  IF found = {} THEN <<alo, blo, 0>> ELSE best

\* the total size of get_matching_blocks()
RECURSIVE MatchTotal(_, _, _, _, _, _)
MatchTotal(a, b, alo, ahi, blo, bhi) ==
    LET around(m) ==
            IF m[3] = 0 THEN 0
            ELSE m[3] + MatchTotal(a, b, alo, m[1], blo, m[2])
                      + MatchTotal(a, b, m[1] + m[3], ahi, m[2] + m[3], bhi)
    IN  IF alo >= ahi \/ blo >= bhi THEN 0
        ELSE around(find_longest_match(a, b, alo, ahi, blo, bhi))

RECURSIVE Gcd(_, _)
Gcd(x, y) == IF y = 0 THEN x ELSE Gcd(y, x % y)

\* a score is a fraction <<numerator, denominator>> in lowest terms
Frac(n, d) == LET reduce(g) == <<n \div g, d \div g>> IN reduce(Gcd(n, d))

\* a strict comparison of scores
FracGt(x, y) == x[1] * y[2] > y[1] * x[2]

\* score >= threshold (processing.py, lines 223 and 265)
FracGe(x, y) == x[1] * y[2] >= y[1] * x[2]

One == <<1, 1>>

\* SequenceMatcher(None, left.lower(), right.lower()).ratio() = 2*M/T,
\* and 1.0 for two empty texts
Ratio(left, right) ==
    IF left = << >> /\ right = << >> THEN One
    ELSE Frac(2 * MatchTotal(Lower(left), Lower(right),
                             1, Len(left) + 1, 1, Len(right) + 1),
              Len(left) + Len(right))

\* Ratio, tabulated over the names and addresses of the model
RatioTable ==
    [pair \in KnownTexts \X KnownTexts |-> Ratio(pair[1], pair[2])]

\* _ratio(left, right)
_ratio(left, right) == RatioTable[<<left, right>>]

\* fuzzy_match_score(a, b) = (name_score + address_score) / 2
fuzzy_match_score(a, b) ==
    LET mean(name_score, address_score) ==
            Frac(name_score[1] * address_score[2]
                    + address_score[1] * name_score[2],
                 2 * name_score[2] * address_score[2])
    IN  mean(_ratio(a.name, b.name), _ratio(a.address, b.address))

-----------------------------------------------------------------------------
(* cards/processing.py: duplicate detection                                *)


\* the entry _load_history builds from a row of table entries
HistoryEntry(row) ==
    LET payload == row.normalized_payload_json
    IN  [name          |-> payload.name,
         clinic_name   |-> payload.clinic_name,
         address       |-> payload.address,
         city          |-> payload.city,
         state         |-> payload.state,
         zip_code      |-> payload.zip,
         heally_link   |-> payload.heally_link,
         heally_id     |-> payload.heally_id,
         date_time     |-> None,
         list_source   |-> row.list_source,
         raw           |-> << >>,
         normalized_payload  |-> payload,
         validation_status   |-> row.validation_status,
         uncertainty_reasons |-> row.uncertainty_reasons]

\* _load_history: one cache item per row of table entries, in id order
LoadedHistory(store) ==
    [i \in 1..Len(store.entries) |->
        [entry |-> HistoryEntry(store.entries[i]), entry_id |-> i]]

\* a marking that never writes "No"
SetDuplicateYesOnly(entry, flag) ==
    IF flag = "Yes" THEN [entry EXCEPT !.normalized_payload.duplicate = flag]
    ELSE entry

\* entry.normalized_payload["duplicate"] = flag
SetDuplicate(entry, flag) ==
    [entry EXCEPT !.normalized_payload.duplicate = flag]

\* index of the first item of seq that satisfies Test; 0 if none
FirstIndex(seq, Test(_)) ==
    LET hits == {i \in 1..Len(seq) : Test(seq[i])}
    IN  IF hits = {} THEN 0 ELSE CHOOSE i \in hits : \A k \in hits : i <= k

\* index of the last item of seq that satisfies Test; 0 if none
LastIndex(seq, Test(_)) ==
    LET hits == {i \in 1..Len(seq) : Test(seq[i])}
    IN  IF hits = {} THEN 0 ELSE CHOOSE i \in hits : \A k \in hits : i >= k

SameHeallyId(entry, other) ==
    /\ Truthy(entry.heally_id)
    /\ Truthy(other.heally_id)
    /\ other.heally_id = entry.heally_id

Report(i, rule, score, where, at, id) ==
    [entry |-> i, rule |-> rule, score |-> score,
     matched |-> [where |-> where, at |-> at], matched_entry_id |-> id]

\* detect_duplicates without the `continue` after the exact-key report: the
\* id pass runs for a record the key already matched
DetectOneNoContinue(i, entry, history, thr) ==
    LET byFuzzy(byId, fz) ==
            IF fz # 0
            THEN <<SetDuplicate(byId[1], "Yes"),
                   byId[2] \o <<Report(i, "fuzzy",
                                       fuzzy_match_score(entry, history[fz].entry),
                                       "cache", fz, history[fz].entry_id)>> >>
            ELSE <<SetDuplicate(byId[1], "No"), byId[2]>>
        byHeallyId(byKey, hi) ==
            IF hi # 0
            THEN <<SetDuplicate(byKey[1], "Yes"),
                   byKey[2] \o <<Report(i, "heally_id", One, "cache", hi,
                                        history[hi].entry_id)>> >>
            ELSE byKey
        byExactKey(ex) ==
            IF ex # 0
            THEN <<SetDuplicate(entry, "Yes"),
                   <<Report(i, "exact_key", One, "cache", ex,
                            history[ex].entry_id)>> >>
            ELSE <<entry, << >> >>
        decide(byId) ==
            IF byId[1].normalized_payload.duplicate = "Yes" THEN byId
            ELSE byFuzzy(byId,
                     FirstIndex(history,
                         LAMBDA item :
                             FracGe(fuzzy_match_score(entry, item.entry), thr)))
    IN  decide(byHeallyId(
                   byExactKey(LastIndex(history,
                       LAMBDA item :
                           normalized_key(item.entry) = normalized_key(entry))),
                   IF Truthy(entry.heally_id)
                   THEN FirstIndex(history,
                            LAMBDA item : SameHeallyId(entry, item.entry))
                   ELSE 0))

\* the body of the loop of detect_duplicates for the entry at position i:
\* <<the entry as it is left, the reports appended for it>>
DetectOne(i, entry, history, thr) ==
    LET \* lines 218-236: the fuzzy pass over the cache, for the entry as the
        \* id pass left it; fz is the first item at or above the threshold
        byFuzzy(byId, fz) ==
            IF fz # 0
            THEN <<SetDuplicate(byId[1], "Yes"),
                   byId[2] \o <<Report(i, "fuzzy",
                                       fuzzy_match_score(entry, history[fz].entry),
                                       "cache", fz, history[fz].entry_id)>> >>
            ELSE <<SetDuplicate(byId[1], "No"), byId[2]>>
        \* lines 203-217: the id pass; hi is the first item with the id
        byHeallyId(hi) ==
            IF hi # 0
            THEN <<SetDuplicate(entry, "Yes"),
                   <<Report(i, "heally_id", One, "cache", hi,
                            history[hi].entry_id)>> >>
            ELSE <<entry, << >> >>
        \* existing = {normalized_key(item["entry"]): item ...}: the last
        \* item of the cache with a key is the one the dict keeps
        decide(ex, byId) ==
            IF ex # 0
            THEN <<SetDuplicate(entry, "Yes"),
                   <<Report(i, "exact_key", One, "cache", ex,
                            history[ex].entry_id)>> >>
            ELSE IF byId[1].normalized_payload.duplicate = "Yes" THEN byId
            ELSE byFuzzy(byId,
                     FirstIndex(history,
                         LAMBDA item :
                             FracGe(fuzzy_match_score(entry, item.entry), thr)))
    IN  decide(LastIndex(history,
                   LAMBDA item :
                       normalized_key(item.entry) = normalized_key(entry)),
               byHeallyId(IF Truthy(entry.heally_id)
                          THEN FirstIndex(history,
                                   LAMBDA item : SameHeallyId(entry, item.entry))
                          ELSE 0))

\* detect_duplicates(entries) with the cache `history`:
\* <<the entries as they are left, the duplicates list>>
RECURSIVE DetectFrom(_, _, _, _)
DetectFrom(i, entries, history, thr) ==
    IF i > Len(entries) THEN <<entries, << >> >>
    ELSE LET both(one, rest) == <<rest[1], one[2] \o rest[2]>>
             then(one) ==
                 both(one, DetectFrom(i + 1, [entries EXCEPT ![i] = one[1]],
                                      history, thr))
         IN  then(DetectOne(i, entries[i], history, thr))

detect_duplicates(entries, history, thr) == DetectFrom(1, entries, history, thr)

\* a rule choice that tests the similarity before the key and the id
BatchRuleFuzzyFirst(entry, other, thr) ==
    IF FracGe(fuzzy_match_score(entry, other), thr) THEN "fuzzy_batch"
    ELSE IF normalized_key(entry) = normalized_key(other) THEN "exact_key_batch"
    ELSE IF SameHeallyId(entry, other) THEN "heally_id_batch"
    ELSE ""

\* the rule by which entry matches the seen entry other, "" when none does
BatchRule(entry, other, thr) ==
    IF normalized_key(entry) = normalized_key(other) THEN "exact_key_batch"
    ELSE IF SameHeallyId(entry, other) THEN "heally_id_batch"
    ELSE IF FracGe(fuzzy_match_score(entry, other), thr) THEN "fuzzy_batch"
    ELSE ""

\* a promotion that leaves the payload's list_source as it was
PromoteField(entry) ==
    [entry EXCEPT !.normalized_payload.duplicate = "Yes",
                  !.list_source = "Both Lists"]

\* deduplicate_within_batch, lines 275-280, for one of the two records
Promote(entry) ==
    [entry EXCEPT !.normalized_payload.duplicate = "Yes",
                  !.normalized_payload.list_source = "Both Lists",
                  !.list_source = "Both Lists"]

\* deduplicate_within_batch without the test of line 283: a record without
\* a batch match is set to "No" whatever the history pass found
DedupOneResets(i, entries, thr) ==
    LET entry == entries[i]
        report(j, rule) ==
            Report(i, rule,
                   IF rule = "fuzzy_batch"
                   THEN fuzzy_match_score(entry, entries[j]) ELSE One,
                   "batch", j, 0)
        matched(j) ==
            IF j # 0
            THEN <<[entries EXCEPT ![i] = Promote(entry),
                                   ![j] = Promote(entries[j])],
                   <<report(j, BatchRule(entry, entries[j], thr))>> >>
            ELSE <<[entries EXCEPT ![i] = SetDuplicate(entry, "No")], << >> >>
    IN  matched(FirstIndex(SubSeq(entries, 1, i - 1),
                           LAMBDA other : BatchRule(entry, other, thr) # ""))

\* the body of the outer loop of deduplicate_within_batch for position i;
\* seen_entries are the entries before i
DedupOne(i, entries, thr) ==
    LET entry == entries[i]
        \* lines 245-281: the report for the seen entry j that matched by rule
        report(j, rule) ==
            Report(i, rule,
                   IF rule = "fuzzy_batch"
                   THEN fuzzy_match_score(entry, entries[j]) ELSE One,
                   "batch", j, 0)
        \* j: the first seen entry that matches, 0 when none does
        matched(j) ==
            IF j # 0
            THEN <<[entries EXCEPT ![i] = Promote(entry),
                                   ![j] = Promote(entries[j])],
                   <<report(j, BatchRule(entry, entries[j], thr))>> >>
            ELSE IF entry.normalized_payload.duplicate # "Yes"
            THEN <<[entries EXCEPT ![i] = SetDuplicate(entry, "No")], << >> >>
            ELSE <<entries, << >> >>
    IN  matched(FirstIndex(SubSeq(entries, 1, i - 1),
                           LAMBDA other : BatchRule(entry, other, thr) # ""))

\* deduplicate_within_batch(entries):
\* <<the entries as they are left, the duplicates list>>
RECURSIVE DedupFrom(_, _, _)
DedupFrom(i, entries, thr) ==
    IF i > Len(entries) THEN <<entries, << >> >>
    ELSE LET both(one, rest) == <<rest[1], one[2] \o rest[2]>>
             then(one) == both(one, DedupFrom(i + 1, one[1], thr))
         IN  then(DedupOne(i, entries, thr))

deduplicate_within_batch(entries, thr) == DedupFrom(1, entries, thr)

\* process(), lines 304-306
SyncListSource(entry) ==
    IF entry.normalized_payload.duplicate = "Yes" /\ entry.list_source # "Both Lists"
    THEN [entry EXCEPT !.list_source = entry.normalized_payload.list_source]
    ELSE entry

\* process(), lines 308-313
Summary(new, re, all) ==
    [new_visits     |-> Len(new),
     reprints       |-> Len(re),
     combined_total |-> Len(all),
     duplicates     |-> Cardinality({i \in 1..Len(all) :
                            all[i].normalized_payload.duplicate = "Yes"})]

-----------------------------------------------------------------------------
(* The store, and the steps of process()                                   *)

\* the row process() inserts into table entries for an entry
EntryRow(entry, bid) ==
    [batch_id         |-> bid,
     list_source      |-> entry.list_source,
     date_time_local  |-> IF entry.date_time # None
                          THEN format_datetime(entry.date_time) ELSE None,
     raw_payload_json |-> entry.raw,
     normalized_payload_json |-> entry.normalized_payload,
     validation_status       |-> entry.validation_status,
     uncertainty_reasons     |-> entry.uncertainty_reasons]

\* a row that takes the matched id from the report alone
MatchRowReportId(report, records) ==
    [entry_id         |-> records[report.entry],
     matched_entry_id |-> report.matched_entry_id,
     rule             |-> report.rule,
     score            |-> report.score]

\* the row process() inserts into duplicate_matches for a report, given the
\* ids recorded in entry_records (0 where there is none)
MatchRow(report, records) ==
    LET matched_id ==
            IF report.matched_entry_id # 0 THEN report.matched_entry_id
            ELSE IF report.matched.where = "batch"
                    /\ report.matched.at \in 1..Len(records)
            THEN records[report.matched.at]
            ELSE 0
    IN  [entry_id         |-> records[report.entry],
         matched_entry_id |-> matched_id,
         rule             |-> report.rule,
         score            |-> report.score]

\* the store operations of a run, in order: the batch, one per entry of
\* combined, one per report
NumOps(entries, reports) == 1 + Len(entries) + Len(reports)

\* entry_records after the first k store operations
RecordsAfter(k, store, entries) ==
    [i \in 1..Len(entries) |->
        IF i <= k - 1 THEN Len(store.entries) + i ELSE 0]

\* the content the session holds after the first k store operations of the
\* body of the with block of process()
StoreAfter(k, store, entries, reports) ==
    LET bid     == Len(store.batches) + 1
        nE      == IF k - 1 < Len(entries) THEN k - 1 ELSE Len(entries)
        nM      == k - 1 - Len(entries)
        records == RecordsAfter(k, store, entries)
    IN  IF k = 0 THEN store
        ELSE [batches |-> Append(store.batches, [label |-> None]),
              entries |-> store.entries \o
                          [i \in 1..nE |-> EntryRow(entries[i], bid)],
              duplicate_matches |-> store.duplicate_matches \o
                          [i \in 1..(IF nM > 0 THEN nM ELSE 0) |->
                              MatchRow(reports[i], records)],
              print_jobs |-> store.print_jobs]

\* a scope that commits whatever was done when the body raised
session_scope_commits(committed, pending, raised) == pending

\* session_scope(): what the database holds when the with block is left;
\* commit() on a normal exit, rollback() when the body or commit() raised
session_scope(committed, pending, raised) ==
    IF raised THEN committed ELSE pending

\* a run that leaves the cache as it found it
ExtendCacheNone(history, entries, records) == history

\* a run that adds to the cache only the records that were not rejected
ExtendCacheAccepted(history, entries, records) ==
    history \o
    SelectSeq([i \in 1..Len(entries) |->
                  [entry |-> entries[i], entry_id |-> records[i]]],
              LAMBDA item : item.entry_id # 0
                                /\ item.entry.validation_status # "rejected")

\* process(), lines 364-367: the cache after a run
ExtendCache(history, entries, records) ==
    history \o
    SelectSeq([i \in 1..Len(entries) |->
                  [entry |-> entries[i], entry_id |-> records[i]]],
              LAMBDA item : item.entry_id # 0)

\* process(), lines 378-383: a report as process() returns it
SimpleReport(report, entries, history) ==
    [rule         |-> report.rule,
     score        |-> report.score,
     entry_name   |-> entries[report.entry].name,
     matched_name |-> IF report.matched.where = "cache"
                      THEN history[report.matched.at].entry.name
                      ELSE entries[report.matched.at].name]

\* a report list with the batch reports first
ProcessingReportBatchFirst(entries, cross, batch, history, sum, bid) ==
    [normalized_entries |-> entries,
     duplicate_reports  |->
         [k \in 1..Len(batch \o cross) |->
             SimpleReport((batch \o cross)[k], entries, history)],
     summary            |-> sum,
     batch_id           |-> bid]

\* process(), lines 302 and 369-388: the ProcessingReport returned (without
\* its header_mapping and issues)
ProcessingReport(entries, cross, batch, history, sum, bid) ==
    [normalized_entries |-> entries,
     duplicate_reports  |->
         [k \in 1..Len(cross \o batch) |->
             SimpleReport((cross \o batch)[k], entries, history)],
     summary            |-> sum,
     batch_id           |-> bid]

-----------------------------------------------------------------------------
(* Actions                                                                  *)

NoSummary == [new_visits |-> 0, reprints |-> 0, combined_total |-> 0,
              duplicates |-> 0]

Init ==
    /\ db = EmptyStore
    /\ cache = [p \in Procs |-> << >>]
    /\ built = [p \in Procs |-> FALSE]
    /\ threshold \in FuzzyThresholds
    /\ pc = "idle"
    /\ cur = "p1"
    /\ new_visit_df = << >>
    /\ reprint_df = << >>
    /\ new_entries = << >>
    /\ re_entries = << >>
    /\ combined = << >>
    /\ cross_duplicates = << >>
    /\ batch_duplicates = << >>
    /\ summary = NoSummary
    /\ entry_records = << >>
    /\ batch_id = 0
    /\ cacheAtCall = << >>
    /\ dbAtCall = EmptyStore
    /\ outcome = "none"
    /\ failed = 0
    /\ mapping_objects = << >>
    /\ mappingsAtCall = << >>
    /\ called = "none"
    /\ args = << >>
    /\ ret = << >>

\* DataProcessor.__init__: init_db() and _load_history() in a session scope
Construct(p) ==
    /\ UNCHANGED callVars
    /\ pc = "idle"
    /\ ~built[p]
    /\ built' = [built EXCEPT ![p] = TRUE]
    /\ cache' = [cache EXCEPT ![p] = cache[p] \o LoadedHistory(db)]
    /\ UNCHANGED <<db, threshold, pc, cur, new_visit_df, reprint_df,
                   new_entries, re_entries, combined, cross_duplicates,
                   batch_duplicates, summary, entry_records, batch_id,
                   cacheAtCall, dbAtCall, outcome, failed, mapping_objects,
                   mappingsAtCall>>

\* the object passed as new_visit_mapping
NewVisitMapping(objects) == objects[1]

\* the object passed as reprint_mapping
ReprintMapping(objects) == objects[Len(objects)]

\* normalize_rows, lines 105-108, and process(), lines 315-317: the issues of
\* a table hold its mapping's missing list itself when that list is not
\* empty, issues starts as a shallow copy of the new-visit issues, and the
\* lists of the reprint issues are appended to the lists it holds
MergeIssues(objects) ==
    LET new_missing == NewVisitMapping(objects).missing
        re_missing  == ReprintMapping(objects).missing
    IN  IF new_missing # << >> /\ re_missing # << >>
        THEN [objects EXCEPT ![1].missing = new_missing \o re_missing]
        ELSE objects

\* process(), lines 296-299: both tables are normalized and concatenated
Process(p, new_visit, reprint, objects) ==
    /\ UNCHANGED <<called, args>>
    /\ mapping_objects' = objects
    /\ mappingsAtCall' = objects
    /\ ret' = << >>
    /\ pc = "idle"
    /\ built[p]
    /\ Len(db.batches) < MaxRuns
    /\ Len(new_visit) + Len(reprint) <= MaxBatch
    /\ Len(db.entries) + Len(new_visit) + Len(reprint) <= MaxStore
    /\ new_visit_df' = new_visit
    /\ reprint_df' = reprint
    /\ new_entries' = normalize_rows(new_visit, "new_visit",
                                     NewVisitMapping(objects))
    /\ re_entries' = normalize_rows(reprint, "reprint",
                                    ReprintMapping(objects))
    /\ combined' = new_entries' \o re_entries'
    /\ cur' = p
    /\ pc' = "normalized"
    /\ cross_duplicates' = << >>
    /\ batch_duplicates' = << >>
    /\ summary' = NoSummary
    /\ entry_records' = << >>
    /\ batch_id' = 0
    /\ cacheAtCall' = cache[p]
    /\ dbAtCall' = db
    /\ outcome' = "running"
    /\ failed' = 0
    /\ UNCHANGED <<db, cache, built, threshold>>

\* process(), line 300: detect_duplicates(combined)
DetectDuplicates ==
    /\ UNCHANGED callVars
    /\ pc = "normalized"
    /\ LET returns(r) == /\ combined' = r[1]
                          /\ cross_duplicates' = r[2]
       IN  returns(detect_duplicates(combined, cache[cur], threshold))
    /\ pc' = "history_done"
    /\ UNCHANGED <<db, cache, built, threshold, cur, new_visit_df,
                   reprint_df, new_entries, re_entries, batch_duplicates,
                   summary, entry_records, batch_id, cacheAtCall, dbAtCall,
                   outcome, failed, mapping_objects, mappingsAtCall>>

\* process(), lines 301-317: deduplicate_within_batch(combined), the
\* list_source loop, the summary and the merge of the issues
DeduplicateWithinBatch ==
    /\ UNCHANGED callVars
    /\ pc = "history_done"
    /\ mapping_objects' = MergeIssues(mapping_objects)
    /\ LET returns(r) ==
               /\ combined' = [i \in 1..Len(r[1]) |-> SyncListSource(r[1][i])]
               /\ batch_duplicates' = r[2]
       IN  returns(deduplicate_within_batch(combined, threshold))
    /\ summary' = Summary(new_entries, re_entries, combined')
    /\ pc' = "batch_done"
    /\ UNCHANGED <<db, cache, built, threshold, cur, new_visit_df,
                   reprint_df, new_entries, re_entries, cross_duplicates,
                   entry_records, batch_id, cacheAtCall, dbAtCall, outcome,
                   failed, mappingsAtCall>>

\* process(), lines 319-362: the with block.  The store operation number
\* fail raises (0: none does; the one after the last insert is the commit()
\* of session_scope); those before it are done in the session, and
\* session_scope() decides what the database keeps.  An exception leaves
\* process(), whose locals are gone with it.
Persist(fail) ==
    /\ UNCHANGED callVars
    /\ pc = "batch_done"
    /\ LET reports == cross_duplicates \o batch_duplicates
           N       == NumOps(combined, reports)
           raised  == fail # 0
           done    == IF raised THEN fail - 1 ELSE N
       IN  /\ fail \in 0..(N + 1)
           /\ db' = session_scope(db, StoreAfter(done, db, combined, reports),
                                  raised)
           /\ pc' = IF raised THEN "idle" ELSE "committed"
           /\ outcome' = IF raised THEN "raised" ELSE outcome
           /\ failed' = fail
           /\ IF raised
              THEN /\ new_visit_df' = << >>
                   /\ reprint_df' = << >>
                   /\ new_entries' = << >>
                   /\ re_entries' = << >>
                   /\ combined' = << >>
                   /\ cross_duplicates' = << >>
                   /\ batch_duplicates' = << >>
                   /\ summary' = NoSummary
                   /\ entry_records' = << >>
                   /\ batch_id' = 0
              ELSE /\ entry_records' = RecordsAfter(N, db, combined)
                   /\ batch_id' = Len(db.batches) + 1
                   /\ UNCHANGED <<new_visit_df, reprint_df, new_entries,
                                  re_entries, combined, cross_duplicates,
                                  batch_duplicates, summary>>
    /\ UNCHANGED <<cache, built, threshold, cur, cacheAtCall, dbAtCall,
                   mapping_objects, mappingsAtCall>>

\* process(), lines 364-388: the cache is extended and the report returned
Return ==
    /\ UNCHANGED <<called, args>>
    /\ ret' = ProcessingReport(combined, cross_duplicates, batch_duplicates,
                               cacheAtCall, summary, batch_id)
    /\ pc = "committed"
    /\ cache' = [cache EXCEPT
                   ![cur] = ExtendCache(cache[cur], combined, entry_records)]
    /\ pc' = "idle"
    /\ outcome' = "returned"
    /\ UNCHANGED <<db, built, threshold, cur, new_visit_df, reprint_df,
                   new_entries, re_entries, combined, cross_duplicates,
                   batch_duplicates, summary, entry_records, batch_id,
                   cacheAtCall, dbAtCall, failed, mapping_objects,
                   mappingsAtCall>>

Next ==
    \/ \E p \in Procs : Construct(p)
    \/ \E p \in Procs, n \in Tables, r \in Tables : Process(p, n, r, <<FullMapping, FullMapping>>)
    \/ DetectDuplicates
    \/ DeduplicateWithinBatch
    \/ \E fail \in 0..(2 + 3 * MaxBatch) : Persist(fail)
    \/ Return

Spec == Init /\ [][Next]_vars

-----------------------------------------------------------------------------
(* One-row runs of a processor on an empty store, over a grid of rows: the  *)
(* normalization and the two passes, up to the report                      *)

FieldNames ==
    { << >>, <<"a","n","n"," ","l","e","e">>, <<"L","e","e",","," ","A","n","n">> }

FieldAddresses == { << >>, <<"1"," ","a"," ","s","t">> }

FieldCities == { << >>, <<"r","e","n","o">> }

FieldStates == { << >>, <<"n","v">>, <<"N","e","v","a","d","a">>, <<"z","z">> }

FieldZips ==
    { << >>, <<"9","0","7","1","7">>,
      <<"9","0","7","1","7","-","1","2","3","4">>, <<"b","a","d">>,
      <<"8","9","5","0","1">> }

FieldDates == { None, <<"s","o","o","n">>, <<"2","0","2","5","-","0","2","-","2","0">> }

FieldLinks == { << >>, <<"x","/","1","4","8","1","4","8","0">> }

FieldRows ==
    [name : FieldNames, clinic : {<<"m","d">>}, address : FieldAddresses,
     city : FieldCities, state : FieldStates, zip : FieldZips,
     datetime : FieldDates, heally : FieldLinks]

InitRows ==
    /\ db = EmptyStore
    /\ cache = [p \in Procs |-> << >>]
    /\ built = [p \in Procs |-> p = "p1"]
    /\ threshold \in FuzzyThresholds
    /\ pc = "idle"
    /\ cur = "p1"
    /\ new_visit_df = << >>
    /\ reprint_df = << >>
    /\ new_entries = << >>
    /\ re_entries = << >>
    /\ combined = << >>
    /\ cross_duplicates = << >>
    /\ batch_duplicates = << >>
    /\ summary = NoSummary
    /\ entry_records = << >>
    /\ batch_id = 0
    /\ cacheAtCall = << >>
    /\ dbAtCall = EmptyStore
    /\ outcome = "none"
    /\ failed = 0
    /\ mapping_objects = << >>
    /\ mappingsAtCall = << >>
    /\ called = "none"
    /\ args = << >>
    /\ ret = << >>

NextRows ==
    \/ \E row \in FieldRows : Process("p1", <<row>>, << >>, <<FullMapping, FullMapping>>)
    \/ \E row \in FieldRows : Process("p1", << >>, <<row>>, <<FullMapping, FullMapping>>)
    \/ DetectDuplicates
    \/ DeduplicateWithinBatch

SpecRows == InitRows /\ [][NextRows]_vars


-----------------------------------------------------------------------------
(* DataProcessor.export, called on its own on lists of entries            *)

\* the characters in code point order
CodePoints ==
    <<" ", "'", ",", "-", ".", "/",
      "0", "1", "2", "3", "4", "5", "6", "7", "8", "9", ":",
      "A", "B", "C", "D", "E", "F", "G", "H", "I", "J", "K", "L", "M",
      "N", "O", "P", "Q", "R", "S", "T", "U", "V", "W", "X", "Y", "Z", "_",
      "a", "b", "c", "d", "e", "f", "g", "h", "i", "j", "k", "l", "m",
      "n", "o", "p", "q", "r", "s", "t", "u", "v", "w", "x", "y", "z",
      LongS>>

\* ord(c), up to a shift
Ord == [c \in Chars |-> CHOOSE i \in 1..Len(CodePoints) : CodePoints[i] = c]

\* left < right on str
RECURSIVE TextLess(_, _)
TextLess(left, right) ==
    IF right = << >> THEN FALSE
    ELSE IF left = << >> THEN TRUE
    ELSE IF left[1] = right[1] THEN TextLess(Tail(left), Tail(right))
    ELSE Ord[left[1]] < Ord[right[1]]

\* left < right on pairs of str
PairLess(left, right) ==
    \/ TextLess(left[1], right[1])
    \/ left[1] = right[1] /\ TextLess(left[2], right[2])

\* a key that keeps the letter case of the tokens
ExportKeyCased(e) ==
    LET key(tokens) == <<tokens[1], tokens[Len(tokens)]>>
    IN  IF e.name = << >> THEN << << >>, << >> >> ELSE key(Split(e.name))

\* export(), lines 394-397: the sort key of an entry
ExportKey(e) ==
    LET key(tokens) == <<Lower(tokens[1]), Lower(tokens[Len(tokens)])>>
    IN  IF e.name = << >> THEN << << >>, << >> >> ELSE key(Split(e.name))

\* sorted(entries, key=...): a stable sort; the last entry goes behind every
\* entry of the sorted rest whose key is not greater than its own
RECURSIVE Sorted(_)
Sorted(entries) ==
    LET place(rest, e, k) ==
            SelectSeq(rest, LAMBDA o : ~PairLess(k, ExportKey(o)))
            \o <<e>> \o
            SelectSeq(rest, LAMBDA o : PairLess(k, ExportKey(o)))
        last(e) == place(Sorted(SubSeq(entries, 1, Len(entries) - 1)),
                         e, ExportKey(e))
    IN  IF entries = << >> THEN << >> ELSE last(entries[Len(entries)])

\* export(), lines 401-407
StampsRow(entry) ==
    [Name |-> entry.name, Address |-> entry.address, City |-> entry.city,
     State |-> entry.state, Zip |-> entry.zip_code]

\* export(), lines 412-423
CombinedRow(entry) ==
    [Name |-> entry.name, ClinicName |-> entry.clinic_name,
     Address |-> entry.address, City |-> entry.city, State |-> entry.state,
     ZipCode |-> entry.zip_code, HeallyLink |-> entry.heally_link,
     DateAndTime |-> format_datetime(entry.date_time),
     ListSource |-> entry.list_source,
     Duplicate |-> IF entry.normalized_payload.duplicate = Unset THEN "No"
                   ELSE entry.normalized_payload.duplicate]

\* DataFrame(rows).to_csv(path): the header, which is that of the first
\* row, and the rows in order
ToCsv(rows, header) ==
    [header |-> IF rows = << >> THEN << >> ELSE header, rows |-> rows]

StampsHeader == <<"Name", "Address", "City", "State", "Zip">>

CombinedHeader ==
    <<"Name", "Clinic Name", "Address", "City", "State", "Zip Code",
      "Heally Link", "Date and Time", "List Source", "Duplicate?">>

\* export(), lines 433-454: the row of print_jobs
PrintJob(b, entries_sorted) ==
    [batch_id |-> b, entry_count |-> Len(entries_sorted)]

\* export(entries, batch_id); fail: the insert into print_jobs or the commit
\* raised, after both files were written
Export(entries, b, fail) ==
    /\ pc = "idle"
    /\ called = "none"
    /\ called' = "export"
    /\ args' = <<entries, b>>
    /\ ret' = [stamps   |-> ToCsv([i \in 1..Len(entries) |->
                                     StampsRow(Sorted(entries)[i])],
                                 StampsHeader),
               combined |-> ToCsv([i \in 1..Len(entries) |->
                                     CombinedRow(Sorted(entries)[i])],
                                 CombinedHeader),
               raised   |-> fail]
    /\ db' = session_scope(db,
                           [db EXCEPT !.print_jobs =
                               Append(@, PrintJob(b, Sorted(entries)))],
                           fail)
    /\ UNCHANGED <<cache, built, threshold, pc, cur, new_visit_df,
                   reprint_df, new_entries, re_entries, combined,
                   cross_duplicates, batch_duplicates, summary,
                   entry_records, batch_id, cacheAtCall, dbAtCall, outcome,
                   failed, mapping_objects, mappingsAtCall>>

\* names of the rows whose entries are exported
ExportNames ==
    { << >>, <<"a","n","n"," ","l","e","e">>,
      <<"a","n","n"," ","b"," ","l","e","e">>,
      <<"L","e","e",","," ","A","n","n">>,
      <<"1","_"," ","x">>, <<"1","b"," ","x">>,
      <<"b","o","b">>, <<"z","e","d"," ","a","l">> }

\* the entries normalize_rows makes of the row RowA with those names
ExportEntries ==
    {NormalizeRow([RowA EXCEPT !.name = n], "new_visit", FullMapping.mapping) :
        n \in ExportNames}

MaxExport == 3

InitExport == InitRows

NextExport ==
    \E entries \in SeqsUpTo(ExportEntries, MaxExport), fail \in BOOLEAN :
        Export(entries, 1, fail)

SpecExport == InitExport /\ [][NextExport]_vars

-----------------------------------------------------------------------------
(* cards/address.py: the normalizers called on their own                    *)

\* address texts: blank, with abbreviations and punctuation, and one with a
\* long s
AddressTexts ==
    { << >>, <<" "," ">>, <<"1","2","3"," ","m","a","i","n"," ","s","t">>,
      <<"1"," ","a"," ","s","t",".">>,
      <<"1"," ","W","a","y"," ","a","v","e",",">>, <<LongS,"t">> }

CityTexts ==
    { << >>, <<" ">>, <<"r","e","n","o">>,
      <<" ","l","o","s"," ","a","n","g","e","l","e","s">> }

StateTexts ==
    { << >>, <<" ">>, <<"n","v">>, <<"N","v">>, <<"N","V">>,
      <<" ","n","v"," ">>, <<"N","e","v","a","d","a">>,
      <<"n","e","v","a","d","a">>,
      <<" ","c","a","l","i","f","o","r","n","i","a"," ">>, <<"z","z">>,
      <<" ","z","z"," ">> }

\* zip texts: in and out of the ZIP table, with and without the four digits,
\* padded, and malformed
ZipTexts ==
    { << >>, <<" ">>, <<"9","0","7","1","7">>,
      <<"9","0","7","1","7","-","1","2","3","4">>,
      <<"9","0","7","1","7"," ","1","2","3","4">>,
      <<"9","0","7","1","7","1","2","3","4">>,
      <<" ","9","0","7","1","7"," ">>, <<"0","0","0","0","0">>,
      <<"0","0","0","0","0","-","1","2","3","4">>, <<"b","a","d">>,
      <<"9","0","7","1">>, <<"9","0","7","1","7","-","1","2">>,
      <<"9","0","7","1","7","_","1","2","3","4">> }

\* validate_and_normalize_address(address, city, state, zip_code)
ValidateAndNormalizeAddress(address, city, state, zip_code) ==
    /\ called = "none"
    /\ called' = "validate_and_normalize_address"
    /\ args' = <<address, city, state, zip_code>>
    /\ ret' = validate_and_normalize_address(address, city, state, zip_code)
    /\ UNCHANGED processVars

\* normalize_address(address)
NormalizeAddress(address) ==
    /\ called = "none"
    /\ called' = "normalize_address"
    /\ args' = <<address>>
    /\ ret' = normalize_address(address)
    /\ UNCHANGED processVars

\* normalize_address(result) for the result of the call before; args keeps
\* that result
NormalizeAddressAgain ==
    /\ called = "normalize_address"
    /\ called' = "normalize_address again"
    /\ args' = <<ret>>
    /\ ret' = normalize_address(ret)
    /\ UNCHANGED processVars

\* normalize_state(state)
NormalizeState(state) ==
    /\ called = "none"
    /\ called' = "normalize_state"
    /\ args' = <<state>>
    /\ ret' = normalize_state(state)
    /\ UNCHANGED processVars

\* normalize_state(code) for the code the call before returned
NormalizeStateAgain ==
    /\ called = "normalize_state"
    /\ called' = "normalize_state again"
    /\ args' = <<ret[1]>>
    /\ ret' = normalize_state(ret[1])
    /\ UNCHANGED processVars

\* normalize_zip(zip_code)
NormalizeZip(zip_code) ==
    /\ called = "none"
    /\ called' = "normalize_zip"
    /\ args' = <<zip_code>>
    /\ ret' = normalize_zip(zip_code)
    /\ UNCHANGED processVars

\* normalize_zip of the zip5 the call before returned, or of zip5-zip4;
\* args keeps the text given and the zip5 and zip4 of the call before
NormalizeZipAgain(plus4) ==
    /\ called = "normalize_zip"
    /\ ret[1] # None
    /\ plus4 => ret[2] # None
    /\ called' = "normalize_zip again"
    /\ args' = <<IF plus4 THEN ret[1] \o <<"-">> \o ret[2] ELSE ret[1],
                 ret[1], IF plus4 THEN ret[2] ELSE None>>
    /\ ret' = normalize_zip(args'[1])
    /\ UNCHANGED processVars

InitAddress == InitRows

NextAddress ==
    \/ \E address \in AddressTexts, city \in CityTexts,
          state \in StateTexts, zip_code \in ZipTexts :
           ValidateAndNormalizeAddress(address, city, state, zip_code)
    \/ \E address \in AddressTexts : NormalizeAddress(address)
    \/ NormalizeAddressAgain
    \/ \E state \in StateTexts : NormalizeState(state)
    \/ NormalizeStateAgain
    \/ \E zip_code \in ZipTexts : NormalizeZip(zip_code)
    \/ \E plus4 \in BOOLEAN : NormalizeZipAgain(plus4)

SpecAddress == InitAddress /\ [][NextAddress]_vars

-----------------------------------------------------------------------------
(* Properties                                                              *)

\* the duplicate flag of an entry
Flag(entry) == entry.normalized_payload.duplicate

\* detect_duplicates has run in the running or the last returned call
HistoryPassDone ==
    \/ pc \in {"history_done", "batch_done", "committed"}
    \/ pc = "idle" /\ outcome = "returned"

\* both passes have run in the running or the last returned call
BothPassesDone ==
    \/ pc \in {"batch_done", "committed"}
    \/ pc = "idle" /\ outcome = "returned"

\* the same (name, address, city, state, zip), letter case ignored
SameKey(entry, other) ==
    /\ Lower(entry.name) = Lower(other.name)
    /\ Lower(entry.address) = Lower(other.address)
    /\ Lower(entry.city) = Lower(other.city)
    /\ Lower(entry.state) = Lower(other.state)
    /\ entry.zip_code = other.zip_code

\* both have an id, and the same one
SameId(entry, other) ==
    /\ entry.heally_id \notin {None, << >>}
    /\ other.heally_id = entry.heally_id

\* the mean of the name similarity and the address similarity, as a pair
\* <<numerator, denominator>> (not reduced)
MeanScore(entry, other) ==
    LET mean(n, a) == <<n[1] * a[2] + a[1] * n[2], 2 * n[2] * a[2]>>
    IN  mean(_ratio(entry.name, other.name),
             _ratio(entry.address, other.address))

\* the fraction x is at least the fraction y
AtLeast(x, y) == x[1] * y[2] >= y[1] * x[2]

\* the fractions x and y are equal
SameScore(x, y) == x[1] * y[2] = y[1] * x[2]

\* the history the running (or last) call consulted
History == cacheAtCall

KeyHits(entry) == {k \in 1..Len(History) : SameKey(entry, History[k].entry)}

IdHits(entry) == {k \in 1..Len(History) : SameId(entry, History[k].entry)}

FuzzyHits(entry) ==
    {k \in 1..Len(History) :
        AtLeast(MeanScore(entry, History[k].entry), threshold)}

\* the history reports whose candidate is the record at position i
HistoryReports(i) ==
    {k \in 1..Len(cross_duplicates) : cross_duplicates[k].entry = i}

\* the batch reports whose candidate is the record at position i
BatchReports(i) ==
    {k \in 1..Len(batch_duplicates) : batch_duplicates[k].entry = i}

\* the rule the priority exact key, id, fuzzy selects for an entry
RulesDue(entry) ==
    IF KeyHits(entry) # {} THEN {"exact_key"}
    ELSE IF IdHits(entry) # {} THEN {"heally_id"}
    ELSE IF FuzzyHits(entry) # {} THEN {"fuzzy"}
    ELSE {}

\* C1: after detect_duplicates the history reports follow the input order,
\* every record is the candidate of at most one of them, and the rule of
\* that report is the first of exact key, id (the spec's external_id, rule
\* "heally_id"), fuzzy that finds a history record: a key match leaves no id
\* or fuzzy report, an id match leaves no fuzzy report.
C1_FirstRuleWins ==
    HistoryPassDone =>
        /\ \A k, l \in 1..Len(cross_duplicates) :
               k < l => cross_duplicates[k].entry < cross_duplicates[l].entry
        /\ \A i \in 1..Len(combined) :
               /\ Cardinality(HistoryReports(i)) <= 1
               /\ {cross_duplicates[k].rule : k \in HistoryReports(i)}
                      = RulesDue(combined[i])

\* C1: a record whose key, id and fuzzy score all match history has the one
\* report exact_key
C1_Witness ==
    /\ HistoryPassDone
    /\ \E i \in 1..Len(combined) :
           /\ KeyHits(combined[i]) # {}
           /\ IdHits(combined[i]) # {}
           /\ FuzzyHits(combined[i]) # {}
           /\ \E k \in HistoryReports(i) :
                  cross_duplicates[k].rule = "exact_key"

\* the positions of new-visit records in combined
NewVisitPositions == 1..Len(new_entries)

\* C2: after deduplicate_within_batch, the candidate and the matched record
\* of every batch report have duplicate "Yes" and list_source "Both Lists"
\* (the spec's Both), in the field and in the payload, whatever lists the
\* two came from.
C2_BothPromoted ==
    BothPassesDone =>
        \A k \in 1..Len(batch_duplicates) :
            \A i \in {batch_duplicates[k].entry, batch_duplicates[k].matched.at} :
                /\ Flag(combined[i]) = "Yes"
                /\ combined[i].list_source = "Both Lists"
                /\ combined[i].normalized_payload.list_source = "Both Lists"

\* C2: a reprint matched a new visit of its batch
C2_Witness ==
    /\ BothPassesDone
    /\ \E k \in 1..Len(batch_duplicates) :
           /\ batch_duplicates[k].entry \notin NewVisitPositions
           /\ batch_duplicates[k].matched.at \in NewVisitPositions
           /\ combined[batch_duplicates[k].entry].list_source = "Both Lists"

\* the record at position i is the matched record of a batch report
BatchMatched(i) ==
    \E k \in 1..Len(batch_duplicates) : batch_duplicates[k].matched.at = i

\* C3: after both passes every record's flag is "Yes" or "No", and it is
\* "Yes" exactly for the candidates of history reports and the candidates
\* and matched records of batch reports.
C3_FlagIffMatched ==
    BothPassesDone =>
        \A i \in 1..Len(combined) :
            /\ Flag(combined[i]) \in {"Yes", "No"}
            /\ Flag(combined[i]) = "Yes"
                   <=> \/ HistoryReports(i) # {}
                       \/ BatchReports(i) # {}
                       \/ BatchMatched(i)

\* C3: a record without any match is flagged "No" beside a record that a
\* history report flagged "Yes"
C3_Witness ==
    /\ BothPassesDone
    /\ \E i, j \in 1..Len(combined) :
           /\ Flag(combined[i]) = "No"
           /\ Flag(combined[j]) = "Yes"
           /\ HistoryReports(j) # {}

\* one of the three batch rules holds for the pair
BatchMatch(entry, other) ==
    \/ SameKey(entry, other)
    \/ SameId(entry, other)
    \/ AtLeast(MeanScore(entry, other), threshold)

\* C4: deduplicate_within_batch leaves "Yes" every flag the history pass set
\* to "Yes"; and when such a record matches an earlier record of the batch,
\* a batch report is emitted for it beside its history report, and it and
\* the record the report names are promoted to "Both Lists".
C4_HistoryFlagKept ==
    [][pc = "history_done" /\ pc' = "batch_done" =>
          \A i \in 1..Len(combined) :
              Flag(combined[i]) = "Yes" =>
                  /\ Flag(combined'[i]) = "Yes"
                  /\ (\E j \in 1..(i - 1) : BatchMatch(combined[i], combined[j]))
                         => /\ HistoryReports(i) # {}
                            /\ \E k \in 1..Len(batch_duplicates') :
                                   /\ batch_duplicates'[k].entry = i
                                   /\ batch_duplicates'[k].matched.at < i
                                   /\ combined'[i].list_source = "Both Lists"
                                   /\ combined'[batch_duplicates'[k].matched.at]
                                          .list_source = "Both Lists"
      ]_vars

\* C4: a record has a history report and a batch report
C4_Witness ==
    /\ pc = "batch_done"
    /\ \E i \in 1..Len(combined) :
           /\ HistoryReports(i) # {}
           /\ BatchReports(i) # {}
           /\ Flag(combined[i]) = "Yes"

\* the rows a run added to a table of the store
Added(table, before) == SubSeq(table, Len(before) + 1, Len(table))

\* table extends before
Extends(table, before) ==
    /\ Len(table) >= Len(before)
    /\ SubSeq(table, 1, Len(before)) = before

\* C5: a run whose store operation (the batch insert, an entry insert, a
\* match insert, or the commit) raised ends with the exception at the
\* caller and the store as it was before the run; a run that got through
\* has added one batch, one row of entries per record with the id of that
\* batch, and one row of duplicate_matches per report, and nothing else.
C5_AtomicRun ==
    /\ pc \in {"normalized", "history_done", "batch_done"} => db = dbAtCall
    /\ outcome = "raised" => pc = "idle" /\ failed # 0 /\ db = dbAtCall
    /\ (pc = "committed" \/ (pc = "idle" /\ outcome = "returned")) =>
           /\ failed = 0
           /\ Extends(db.batches, dbAtCall.batches)
           /\ Extends(db.entries, dbAtCall.entries)
           /\ Extends(db.duplicate_matches, dbAtCall.duplicate_matches)
           /\ Len(db.batches) = Len(dbAtCall.batches) + 1
           /\ Len(db.entries) = Len(dbAtCall.entries) + Len(combined)
           /\ Len(db.duplicate_matches) =
                  Len(dbAtCall.duplicate_matches)
                      + Len(cross_duplicates) + Len(batch_duplicates)
           /\ batch_id = Len(db.batches)
           /\ \A i \in 1..Len(combined) :
                  LET row == db.entries[Len(dbAtCall.entries) + i]
                  IN  /\ row.batch_id = batch_id
                      /\ row.normalized_payload_json
                             = combined[i].normalized_payload

\* C5: the run raised after the batch and at least one entry were inserted,
\* with rows of earlier runs in the store
C5_Witness ==
    /\ outcome = "raised"
    /\ failed > 2
    /\ db = dbAtCall
    /\ db.entries # << >>

\* the position of a reason code in the ascending order of the codes
ReasonRank(r) == CHOOSE k \in 1..Len(ReasonOrder) : ReasonOrder[k] = r

\* the relation between status, core fields and reasons, for one entry
StatusConsistent(entry) ==
    LET reasons == entry.uncertainty_reasons
        noCore  == entry.name = << >> \/ entry.address = << >>
        listed  == \E k \in 1..Len(reasons) : reasons[k] = "missing_core_fields"
    IN  /\ entry.validation_status \in {"ok", "attention", "rejected"}
        /\ entry.validation_status = "rejected" <=> noCore
        /\ noCore <=> listed
        /\ entry.validation_status = "attention" <=> reasons # << >> /\ ~noCore
        /\ entry.validation_status = "ok" <=> reasons = << >>
        /\ \A k, l \in 1..Len(reasons) :
               k < l => ReasonRank(reasons[k]) < ReasonRank(reasons[l])

\* C6: every entry normalize_rows made, before and after the duplicate
\* passes, is rejected iff its name or its address is empty iff its reasons
\* hold missing_core_fields, attention iff it has reasons and both core
\* fields, ok iff it has no reason; its reasons ascend strictly.
C6_StatusAndReasons ==
    /\ \A i \in 1..Len(new_entries) : StatusConsistent(new_entries[i])
    /\ \A i \in 1..Len(re_entries) : StatusConsistent(re_entries[i])
    /\ \A i \in 1..Len(combined) : StatusConsistent(combined[i])

\* C6: after both passes, an entry with a name and without an address is
\* rejected, with missing_core_fields after other reasons
C6_Witness ==
    /\ BothPassesDone
    /\ \E i \in 1..Len(combined) :
           /\ combined[i].validation_status = "rejected"
           /\ combined[i].name # << >>
           /\ combined[i].address = << >>
           /\ Len(combined[i].uncertainty_reasons) > 2

\* C7: process() makes one record per row, the new-visit rows in table
\* order and then the reprint rows in table order, rejected rows too; the
\* summary counts the rows of each table, their sum, which is the number of
\* records, and the records flagged "Yes".
C7_OneRecordPerRow ==
    BothPassesDone =>
        /\ Len(new_entries) = Len(new_visit_df)
        /\ Len(re_entries) = Len(reprint_df)
        /\ Len(combined) = Len(new_visit_df) + Len(reprint_df)
        /\ \A i \in 1..Len(combined) :
               combined[i].raw = (new_visit_df \o reprint_df)[i]
        /\ summary.new_visits = Len(new_visit_df)
        /\ summary.reprints = Len(reprint_df)
        /\ summary.combined_total = summary.new_visits + summary.reprints
        /\ summary.combined_total = Len(combined)
        /\ summary.duplicates =
               Cardinality({i \in 1..Len(combined) : Flag(combined[i]) = "Yes"})

\* C7: a run over a new-visit row and a rejected reprint row, one of them
\* a duplicate
C7_Witness ==
    /\ pc = "idle" /\ outcome = "returned"
    /\ Len(new_visit_df) = 1
    /\ Len(reprint_df) = 1
    /\ combined[2].validation_status = "rejected"
    /\ summary.duplicates = 1

\* the normalized (name, address, city, state, zip) of the record a store
\* row holds, letter case ignored; the zip is the ZIP+4 where there is one
PersistedKey(row) ==
    LET payload == row.normalized_payload_json
    IN  <<Lower(payload.name), Lower(payload.address), Lower(payload.city),
          Lower(payload.state),
          IF Truthy(payload.zip4)
          THEN payload.zip \o <<"-">> \o payload.zip4
          ELSE payload.zip>>

\* the history items whose record, as the store holds it, has the
\* normalized (name, address, city, state, zip) of the entry
PersistedKeyHits(entry) ==
    {k \in 1..Len(History) :
        PersistedKey(dbAtCall.entries[History[k].entry_id])
            = <<Lower(entry.name), Lower(entry.address), Lower(entry.city),
                Lower(entry.state), entry.zip_code>>}

\* C8: after detect_duplicates, every record that has the normalized (name,
\* address, city, state, zip) of a record of the history, were that record
\* added by an earlier run of the processor or loaded from the store, has
\* exactly one history report, with rule exact_key and score 1.
C8_ExactKeyReported ==
    HistoryPassDone =>
        \A i \in 1..Len(combined) :
            PersistedKeyHits(combined[i]) # {} =>
                /\ Cardinality(HistoryReports(i)) = 1
                /\ \A k \in HistoryReports(i) :
                       /\ cross_duplicates[k].rule = "exact_key"
                       /\ cross_duplicates[k].score = One

\* the least element of a non-empty set of positions
First(S) == CHOOSE k \in S : \A l \in S : k <= l

\* C9: after detect_duplicates, a record without a key match and without an
\* id match in history has, when some history record scores at least the
\* threshold, exactly one history report: rule fuzzy, naming the first such
\* history record in history order and its store id, with the mean of the
\* name and address similarities of the two as score; and when every
\* history record scores below the threshold it has no history report and
\* the pass leaves its flag "No".
C9_FuzzyFirstAtLeast ==
    HistoryPassDone =>
        \A i \in 1..Len(combined) :
            (KeyHits(combined[i]) = {} /\ IdHits(combined[i]) = {}) =>
                IF FuzzyHits(combined[i]) # {}
                THEN /\ Cardinality(HistoryReports(i)) = 1
                     /\ \A k \in HistoryReports(i) :
                           /\ cross_duplicates[k].rule = "fuzzy"
                           /\ cross_duplicates[k].matched.where = "cache"
                           /\ cross_duplicates[k].matched.at
                                  = First(FuzzyHits(combined[i]))
                           /\ cross_duplicates[k].matched_entry_id
                                  = History[First(FuzzyHits(combined[i]))].entry_id
                           /\ SameScore(cross_duplicates[k].score,
                                        MeanScore(combined[i],
                                            History[First(FuzzyHits(combined[i]))].entry))
                           /\ Flag(combined[i]) = "Yes"
                ELSE /\ HistoryReports(i) = {}
                     /\ pc = "history_done" => Flag(combined[i]) = "No"

\* C9: a record that scores exactly the threshold against two history
\* records has a fuzzy report with that score
C9_Witness ==
    /\ HistoryPassDone
    /\ \E i \in 1..Len(combined) :
           /\ KeyHits(combined[i]) = {}
           /\ IdHits(combined[i]) = {}
           /\ Cardinality(FuzzyHits(combined[i])) > 1
           /\ \E k \in HistoryReports(i) :
                  /\ cross_duplicates[k].rule = "fuzzy"
                  /\ SameScore(cross_duplicates[k].score, threshold)

\* the cache items a returned run adds: one per record of the batch, in
\* order, with the id of the row the run inserted for it
RunItems ==
    [i \in 1..Len(combined) |->
        [entry |-> combined[i], entry_id |-> Len(dbAtCall.entries) + i]]

\* C10: when process() has returned, the cache of its processor is the
\* cache the call found followed by one item per record of the batch, in
\* order, each with the id of the store row that holds the record; while a
\* call runs and when it has raised, the cache is the one the call found;
\* and in every call a record with the key of a cache item, so of any record
\* an earlier call of the processor added, gets a history report.
C10_CacheExtended ==
    /\ pc # "idle" => cache[cur] = cacheAtCall
    /\ (pc = "idle" /\ outcome = "raised") => cache[cur] = cacheAtCall
    /\ (pc = "idle" /\ outcome = "returned") =>
           /\ cache[cur] = cacheAtCall \o RunItems
           /\ \A i \in 1..Len(combined) :
                  /\ Len(dbAtCall.entries) + i <= Len(db.entries)
                  /\ db.entries[Len(dbAtCall.entries) + i].normalized_payload_json
                         = combined[i].normalized_payload
    /\ HistoryPassDone =>
           \A i \in 1..Len(combined) :
               KeyHits(combined[i]) # {} => HistoryReports(i) # {}

\* C10: a later call of a processor reports a record against the item an
\* earlier call of that processor added to its cache
C10_Witness ==
    /\ HistoryPassDone
    /\ \E i \in 1..Len(combined) :
           \E k \in KeyHits(combined[i]) :
               /\ History[k].entry.raw # << >>
               /\ \E r \in HistoryReports(i) :
                      cross_duplicates[r].matched_entry_id = History[k].entry_id

\* C11: while a call of process() runs, the history it consults (the cache
\* of its processor as the call found it) holds an item for every row of
\* entries the store held when the call began, whichever processor
\* committed the row.
C11_HistoryHoldsStore ==
    pc # "idle" =>
        \A id \in 1..Len(dbAtCall.entries) :
            \E k \in 1..Len(History) : History[k].entry_id = id

\* the reports of the running (or last returned) call, in the order
\* process() persists them
RunReports == cross_duplicates \o batch_duplicates

\* the store id the run gave the record at position i of the batch
RunId(i) == Len(dbAtCall.entries) + i

\* C12: when the with block of process() has committed, the store holds one
\* new row of duplicate_matches per report, in report order; the entry id of
\* each is the id the run gave the candidate, its matched id is the store id
\* of the cache item for a history rule and the id the run gave the matched
\* record for a batch rule; both ids are those of rows of entries, never 0
\* (none).
C12_MatchRowsReferToRows ==
    (pc = "committed" \/ (pc = "idle" /\ outcome = "returned")) =>
        /\ Len(db.duplicate_matches)
               = Len(dbAtCall.duplicate_matches) + Len(RunReports)
        /\ \A k \in 1..Len(RunReports) :
               LET row == db.duplicate_matches[Len(dbAtCall.duplicate_matches) + k]
                   report == RunReports[k]
               IN  /\ row.rule = report.rule
                   /\ row.score = report.score
                   /\ row.entry_id = RunId(report.entry)
                   /\ row.matched_entry_id =
                          IF report.matched.where = "cache"
                          THEN History[report.matched.at].entry_id
                          ELSE RunId(report.matched.at)
                   /\ row.entry_id \in 1..Len(db.entries)
                   /\ row.matched_entry_id \in 1..Len(db.entries)
                   /\ report.matched.where = "cache"
                          <=> report.rule \in {"exact_key", "heally_id", "fuzzy"}

\* C12: a committed run persisted a history match and a batch match
C12_Witness ==
    /\ pc = "idle" /\ outcome = "returned"
    /\ cross_duplicates # << >>
    /\ batch_duplicates # << >>
    /\ Len(db.duplicate_matches)
           >= Len(cross_duplicates) + Len(batch_duplicates)

\* the permutations of 1..n
Perms(n) ==
    {f \in [1..n -> 1..n] : \A i, j \in 1..n : i # j => f[i] # f[j]}

\* the pair (first name token, last name token) of an entry, letter case
\* folded; a pair of empty texts for an entry without a name
NameKey(e) ==
    IF Split(e.name) = << >> THEN << << >>, << >> >>
    ELSE <<Lower(Head(Split(e.name))),
           Lower(Split(e.name)[Len(Split(e.name))])>>

\* C13: the rows export() writes to the stamps file and to the combined file
\* are the rows of its entries taken in one and the same order, which is a
\* permutation of the input positions, ascending in the pair (first name
\* token, last name token) compared without letter case, entries of equal
\* pair in their input order.
C13_ExportOrdered ==
    called = "export" =>
        \E f \in Perms(Len(args[1])) :
            /\ ret.stamps.rows =
                   [i \in 1..Len(args[1]) |-> StampsRow(args[1][f[i]])]
            /\ ret.combined.rows =
                   [i \in 1..Len(args[1]) |-> CombinedRow(args[1][f[i]])]
            /\ \A i, j \in 1..Len(args[1]) :
                   i < j =>
                       /\ ~PairLess(NameKey(args[1][f[j]]), NameKey(args[1][f[i]]))
                       /\ NameKey(args[1][f[i]]) = NameKey(args[1][f[j]])
                              => f[i] < f[j]

\* C13: export() moved the first of three entries behind another and wrote
\* two entries of equal pair and different names in their input order
C13_Witness ==
    /\ called = "export"
    /\ Len(args[1]) = 3
    /\ ret.stamps.rows[1] # StampsRow(args[1][1])
    /\ \E i, j \in 1..3 :
           /\ i < j
           /\ NameKey(args[1][i]) = NameKey(args[1][j])
           /\ args[1][i].name # args[1][j].name
           /\ \E k, l \in 1..3 :
                  /\ k < l
                  /\ ret.stamps.rows[k] = StampsRow(args[1][i])
                  /\ ret.stamps.rows[l] = StampsRow(args[1][j])

\* the rules of the history pass
HistoryRules == {"exact_key", "heally_id", "fuzzy"}

Blank(s) == Strip(s) = << >>

\* 5 digits, then nothing, 4 digits, or "-" or a space and 4 digits
ZipForm(s) ==
    /\ Len(s) \in {5, 9, 10}
    /\ \A i \in 1..5 : s[i] \in Digits
    /\ Len(s) = 9 => \A i \in 6..9 : s[i] \in Digits
    /\ Len(s) = 10 => s[6] \in {"-", " "} /\ \A i \in 7..10 : s[i] \in Digits

\* the 5-digit part of a zip text, None when the text has none
FivePart(zip_code) ==
    IF ZipForm(Strip(zip_code)) THEN SubSeq(Strip(zip_code), 1, 5) ELSE None

\* the zips of the ZIP table
TableZips == {p[1] : p \in ZipDb}

\* the (city, state) the ZIP table holds for a zip
TableEntry(zip5) == (CHOOSE p \in ZipDb : p[1] = zip5)[2]

\* the reason is among the reasons returned
HasReason(r) == \E i \in 1..Len(ret.reasons) : ret.reasons[i] = r

\* C15: validate_and_normalize_address called with a blank city, a blank
\* state and a zip whose 5-digit part is in the ZIP table returns the city
\* and the state of the table, the reason inferred_city_state_from_zip and
\* the inferred flag; and whatever the arguments, the flag is set iff one of
\* inferred_city_state_from_zip, inferred_state_from_zip is a reason.
C15_InferredFromZip ==
    called = "validate_and_normalize_address" =>
        /\ (Blank(args[2]) /\ Blank(args[3]) /\ FivePart(args[4]) \in TableZips)
               => /\ ret.city = TableEntry(FivePart(args[4]))[1]
                  /\ ret.state = TableEntry(FivePart(args[4]))[2]
                  /\ HasReason("inferred_city_state_from_zip")
                  /\ ret.inferred
        /\ ret.inferred <=> \/ HasReason("inferred_city_state_from_zip")
                            \/ HasReason("inferred_state_from_zip")

\* C15: a call with a city of one blank, an empty state and a ZIP+4 of the
\* table returned the inferred city
C15_Witness ==
    /\ called = "validate_and_normalize_address"
    /\ args[2] = <<" ">>
    /\ args[3] = << >>
    /\ Len(args[4]) = 10
    /\ FivePart(args[4]) \in TableZips
    /\ ret.inferred
    /\ ret.city # << >>

\* C16: whenever validate_and_normalize_address returns an empty city, its
\* reasons hold missing_city.
C16_BlankCityMissingCity ==
    called = "validate_and_normalize_address" =>
        (ret.city = << >> => HasReason("missing_city"))

\* C17: validate_and_normalize_address called with a blank state and a zip
\* whose 5-digit part is in the ZIP table returns the state of the table and
\* the reasons missing_state and inferred_state_from_zip, the city blank or
\* not.
C17_StateFromZip ==
    called = "validate_and_normalize_address" =>
        ((Blank(args[3]) /\ FivePart(args[4]) \in TableZips)
            => /\ ret.state = TableEntry(FivePart(args[4]))[2]
               /\ HasReason("missing_state")
               /\ HasReason("inferred_state_from_zip"))

\* C18: normalize_address applied to a text it returned returns that text;
\* normalize_state applied to a code it returned returns that code;
\* normalize_zip applied to a zip5, or a zip5-zip4, it returned returns the
\* same zip5 and zip4 and no reasons.
C18_Idempotent ==
    /\ called = "normalize_address again" => ret = args[1]
    /\ called = "normalize_state again" => ret[1] = args[1]
    /\ called = "normalize_zip again" => ret = <<args[2], args[3], << >> >>

\* the 4-digit part of a text of the zip form, None when it has none
FourPart(s) == IF Len(s) = 5 THEN None ELSE SubSeq(s, Len(s) - 3, Len(s))

\* the outcome of normalize_zip for a text taken as it is: missing_zip for
\* the empty text, the two parts for a text of the zip form, invalid_zip
\* for any other
ZipOutcome(given, s) ==
    IF given = << >> THEN <<None, None, <<"missing_zip">> >>
    ELSE IF ZipForm(s) THEN <<SubSeq(s, 1, 5), FourPart(s), << >> >>
    ELSE <<None, None, <<"invalid_zip">> >>

\* C19 as stated: normalize_zip returns (None, None, missing_zip) for the
\* empty text, (zip5, zip4 or None, no reasons) for a text that is 5 digits
\* optionally followed by "-", a space or nothing and 4 digits, and (None,
\* None, invalid_zip) for every other text; a zip5 is returned iff the
\* reasons are empty.
C19_ThreeOutcomesAsStated ==
    called \in {"normalize_zip", "normalize_zip again"} =>
        /\ ret = ZipOutcome(args[1], args[1])
        /\ ret[1] # None <=> ret[3] = << >>

\* C19: normalize_zip returns (None, None, missing_zip) for the empty text;
\* for any other text it tests the text without its leading and trailing
\* blanks: 5 digits optionally followed by "-", a space or nothing and 4
\* digits give (zip5, zip4 or None, no reasons), anything else, a text of
\* blanks included, gives (None, None, invalid_zip); a zip5 is returned iff
\* the reasons are empty.
C19_ThreeOutcomes ==
    called \in {"normalize_zip", "normalize_zip again"} =>
        /\ ret = ZipOutcome(args[1], Strip(args[1]))
        /\ ret[1] # None <=> ret[3] = << >>
        /\ Len(ret[3]) <= 1

\* C19: normalize_zip accepted a zip given with blanks around it
C19_Witness ==
    /\ called = "normalize_zip"
    /\ args[1] # Strip(args[1])
    /\ ret[1] = Strip(args[1])
    /\ ret[3] = << >>

\* the outcome of normalize_state for a text taken as it is: the code for
\* a USPS code in any letter case, the code of the name for a state name in
\* any letter case, the text upper-cased with invalid_state for any other
StateOutcome(s) ==
    IF Len(s) = 2 /\ Upper(s) \in USPS_STATES THEN <<Upper(s), << >> >>
    ELSE IF \E p \in STATE_ABBREVS : p[1] = Lower(s)
    THEN <<(CHOOSE p \in STATE_ABBREVS : p[1] = Lower(s))[2],
           <<"state_name_converted">> >>
    ELSE <<Upper(s), <<"invalid_state">> >>

\* C20 as stated: normalize_state returns a 2-letter USPS code given in any
\* letter case upper-cased with no reason, a state name given in any letter
\* case as its code with state_name_converted, and any other text
\* upper-cased as it was given with invalid_state.
C20_ThreeOutcomesAsStated ==
    called \in {"normalize_state", "normalize_state again"} =>
        ret = StateOutcome(args[1])

\* C20: normalize_state always returns a text and decides on the text
\* without its leading and trailing blanks: a 2-letter USPS code in any
\* letter case is returned upper-cased with no reason, a state name in any
\* letter case as its code with state_name_converted, and any other text
\* (the empty one included) is returned stripped and upper-cased with
\* invalid_state.
C20_ThreeOutcomes ==
    called \in {"normalize_state", "normalize_state again"} =>
        /\ ret = StateOutcome(Strip(args[1]))
        /\ ret[1] # None

\* C20: normalize_state returned a text that is no code and no name without
\* the blanks it was given with, and reported invalid_state
C20_Witness ==
    /\ called = "normalize_state"
    /\ args[1] # Strip(args[1])
    /\ ret[1] = Upper(Strip(args[1]))
    /\ ret[1] # << >>
    /\ ret[2] = <<"invalid_state">>

-----------------------------------------------------------------------------
(* normalize_name, extract_heally, the header mapper and the batch pass    *)
(* called on their own                                                     *)

\* name texts: blank, without a comma, of the form Last, First with and
\* without middle tokens, and with commas at other places
NameTexts ==
    { <<>>,
      <<" "," ">>,
      <<"j","o","h","n"," ","s","m","i","t","h">>,
      <<"J","o","h","n"," "," ","S","m","i","t","h">>,
      <<" ","m","a","r","y"," ","A","N","N"," ","l","e","e"," ">>,
      <<"S","m","i","t","h",","," ","J","o","h","n">>,
      <<"s","m","i","t","h",",","j","o","h","n">>,
      <<"S","M","I","T","H",","," ","j","o","h","n"," ","p","a","u","l">>,
      <<"S","m","i","t","h",","," ","J","o","h","n",","," ","P","a","u","l">>,
      <<"s","m","i","t","h",","," ","j","o","h","n",","," ","p","a","u","l"," ","q">>,
      <<"o","'","n","e","i","l",","," ","a","l">>,
      <<"S","m","i","t","h",",">>,
      <<",","J","o","h","n">>,
      <<"S","m","i","t","h",","," ","J","o","h","n",",">>,
      <<"S","m","i","t","h"," ",","," ","J","o","h","n">>,
      <<"S","m","i","t","h",","," ","J","o","h","n"," ",","," ","P","a","u","l">>,
      <<"x">>,
      <<"S","m","i","t","h",",",",","J","o","h","n">>,
      <<"a",","," ","b",",",","," ","c">> }

\* normalize_name(name)
NormalizeName(name) ==
    /\ called = "none"
    /\ called' = "normalize_name"
    /\ args' = <<name>>
    /\ ret' = normalize_name(name)
    /\ UNCHANGED processVars

\* link fields: absent, blank, padded with an id, with too short a digit
\* run, and with two runs
LinkTexts ==
    { None,
      <<>>,
      <<" "," ">>,
      <<" ","h","/","1","2","3","4","5","6","7"," ">>,
      <<"x","/","1","2","3","4","5">>,
      <<"a","1","2","3","4","5","6","b","9","9","9","9","9","9","9">>,
      <<"1","2","3","4","5"," ","6","7","8","9","0","1">> }

\* a raw row with two digit runs of six in different columns, and digits
\* that are a run only across two columns
RowE ==
    [name     |-> <<"a","n","n"," ","l","e","e">>,
     clinic   |-> <<"m","d"," ","2","2","2","2","2","2"," ","x">>,
     address  |-> <<"1"," ","a"," ","s","t"," ","3","3","3","3","3","3">>,
     city     |-> << >>,
     state    |-> None,
     zip      |-> <<"9","0","7","1","7">>,
     datetime |-> <<"1","2","3","4">>,
     heally   |-> << >>]

\* extract_heally(link, raw)
ExtractHeally(link, raw) ==
    /\ called = "none"
    /\ called' = "extract_heally"
    /\ args' = <<link, raw>>
    /\ ret' = extract_heally(link, raw)
    /\ UNCHANGED processVars

\* REQUIRED_FIELDS (header_mapping.py, lines 8-29)
REQUIRED_FIELDS ==
    [new_visit |->
       <<<<"n","a","m","e">>,
         <<"c","l","i","n","i","c","_","n","a","m","e">>,
         <<"a","d","d","r","e","s","s">>,
         <<"c","i","t","y">>,
         <<"s","t","a","t","e">>,
         <<"z","i","p">>,
         <<"d","a","t","e","_","t","i","m","e">>,
         <<"h","e","a","l","l","y","_","l","i","n","k">>>>,
     reprint |->
       <<<<"n","a","m","e">>,
         <<"c","l","i","n","i","c","_","n","a","m","e">>,
         <<"a","d","d","r","e","s","s">>,
         <<"c","i","t","y">>,
         <<"s","t","a","t","e">>,
         <<"z","i","p">>,
         <<"h","e","a","l","l","y","_","l","i","n","k">>,
         <<"d","a","t","e","_","t","i","m","e">>>>]

\* CANONICAL_HEADERS (lines 36-47): the canonical fields in the order of the
\* dict, each with its aliases
CANONICAL_HEADERS ==
    << <<<<"n","a","m","e">>,
         {<<"n","a","m","e">>,
          <<"p","a","t","i","e","n","t">>,
          <<"f","u","l","l","_","n","a","m","e">>,
          <<"p","a","t","i","e","n","t","_","n","a","m","e">>,
          <<"p","a","t","i","e","n","t","_","f","u","l","l","_","n","a","m","e">>}>>,
       <<<<"c","l","i","n","i","c","_","n","a","m","e">>,
         {<<"c","l","i","n","i","c">>,
          <<"c","l","i","n","i","c","_","n","a","m","e">>,
          <<"c","l","i","n","i","c","n","a","m","e">>}>>,
       <<<<"a","d","d","r","e","s","s">>,
         {<<"a","d","d","r","e","s","s">>,
          <<"a","d","d","r","e","s","s","1">>,
          <<"a","d","d","r">>,
          <<"s","t","r","e","e","t">>,
          <<"s","t","r","e","e","t","_","a","d","d","r","e","s","s">>}>>,
       <<<<"a","d","d","r","e","s","s","_","2">>,
         {<<"a","d","d","r","e","s","s","2">>,
          <<"a","d","d","r","2">>,
          <<"s","u","i","t","e">>}>>,
       <<<<"c","i","t","y">>,
         {<<"c","i","t","y">>,
          <<"t","o","w","n">>,
          <<"c","i","t","y","_","n","a","m","e">>}>>,
       <<<<"s","t","a","t","e">>,
         {<<"s","t","a","t","e">>,
          <<"p","r","o","v","i","n","c","e">>,
          <<"s","t">>}>>,
       <<<<"z","i","p">>,
         {<<"z","i","p">>,
          <<"z","i","p","c","o","d","e">>,
          <<"z","i","p","_","c","o","d","e">>,
          <<"p","o","s","t","a","l">>,
          <<"p","o","s","t","a","l","_","c","o","d","e">>}>>,
       <<<<"d","a","t","e","_","t","i","m","e">>,
         {<<"d","a","t","e">>,
          <<"d","a","t","e","t","i","m","e">>,
          <<"d","a","t","e","_","t","i","m","e">>,
          <<"a","p","p","o","i","n","t","m","e","n","t">>,
          <<"t","i","m","e","s","t","a","m","p">>}>>,
       <<<<"h","e","a","l","l","y","_","l","i","n","k">>,
         {<<"h","e","a","l","l","y">>,
          <<"h","e","a","l","l","y","_","l","i","n","k">>,
          <<"p","r","o","f","i","l","e">>,
          <<"p","a","t","i","e","n","t","_","p","o","r","t","a","l">>}>>,
       <<<<"h","e","a","l","l","y","_","i","d">>,
         {<<"h","e","a","l","l","y","_","i","d">>,
          <<"p","a","t","i","e","n","t","_","i","d">>,
          <<"i","d">>}>> >>

\* header texts: aliases in several spellings, near misses of canonical
\* names, two near misses of equal similarity, and a header of no field
HeaderTexts ==
    { <<"n","a","m","e">>,
      <<" ","N","a","m","e"," ">>,
      <<"p","a","t","i","e","n","t">>,
      <<"n","a","m","e","s">>,
      <<"x","n","a","m","e">>,
      <<"a","d","d","r","e","s","s">>,
      <<"a","d","d","r","e","s","s","_","2">>,
      <<"A","d","d","r","e","s","s"," ","2">>,
      <<"f","o","o">> }

\* the longest header list
MaxHeaders == 3

HeaderLists == SeqsUpTo(HeaderTexts, MaxHeaders)

\* str.replace(" ", "_")
Underscored(s) == [i \in 1..Len(s) |-> IF s[i] = " " THEN "_" ELSE s[i]]

\* HeaderMapper.__init__, line 59: self.headers
StrippedHeaders(headers) == [i \in 1..Len(headers) |-> Strip(headers[i])]

\* HeaderMapper.__init__, line 60: self.normalized
NormalizedHeaders(headers) ==
    [i \in 1..Len(headers) |-> Underscored(Lower(Strip(headers[i])))]

\* SequenceMatcher(None, x, word).ratio() of get_close_matches, tabulated
\* over the normalized header texts and the canonical names
CloseRatio ==
    [pair \in {Underscored(Lower(Strip(h))) : h \in HeaderTexts}
                 \X {CANONICAL_HEADERS[k][1] : k \in 1..Len(CANONICAL_HEADERS)} |->
        Frac(2 * MatchTotal(pair[1], pair[2], 1, Len(pair[1]) + 1,
                            1, Len(pair[2]) + 1),
             Len(pair[1]) + Len(pair[2]))]

\* cutoff=0.85
Cutoff == <<85, 100>>

\* the position of the last header whose normalized text is a variant
LastExactIndex(normalized, variants) ==
    IF \E i \in 1..Len(normalized) : normalized[i] \in variants
    THEN CHOOSE i \in 1..Len(normalized) :
             /\ normalized[i] \in variants
             /\ \A j \in (i + 1)..Len(normalized) : normalized[j] \notin variants
    ELSE 0

\* suggest_mapping, lines 65-68: the position of the first header whose
\* normalized text is a variant of the canonical field, 0 when none is
ExactIndex(normalized, variants) ==
    IF \E i \in 1..Len(normalized) : normalized[i] \in variants
    THEN CHOOSE i \in 1..Len(normalized) :
             /\ normalized[i] \in variants
             /\ \A j \in 1..(i - 1) : normalized[j] \notin variants
    ELSE 0

\* suggest_mapping, lines 70-73: difflib.get_close_matches(canonical,
\* normalized, n=1, cutoff=0.85) keeps the texts of ratio at least the
\* cutoff and takes the largest (ratio, text); the result is the position
\* of the first header with that normalized text, 0 when no text is close
CloseIndex(canonical, normalized) ==
    LET close == {i \in 1..Len(normalized) :
                     FracGe(CloseRatio[<<normalized[i], canonical>>], Cutoff)}
        above(i, j) ==
            \/ ~FracGe(CloseRatio[<<normalized[j], canonical>>],
                       CloseRatio[<<normalized[i], canonical>>])
            \/ /\ CloseRatio[<<normalized[i], canonical>>]
                      = CloseRatio[<<normalized[j], canonical>>]
               /\ ~TextLess(normalized[i], normalized[j])
        best  == CHOOSE i \in close : \A j \in close : above(i, j)
        index(text) == CHOOSE i \in 1..Len(normalized) :
                           /\ normalized[i] = text
                           /\ \A j \in 1..(i - 1) : normalized[j] # text
    IN  IF close = {} THEN 0 ELSE index(normalized[best])

\* HeaderMapper(headers).suggest_mapping(): the dict as the sequence of its
\* items <<canonical, header>>, which are in the order of CANONICAL_HEADERS
suggest_mapping(headers) ==
    LET stripped   == StrippedHeaders(headers)
        normalized == NormalizedHeaders(headers)
        chosen(exact, canonical) ==
            IF exact # 0 THEN exact ELSE CloseIndex(canonical, normalized)
        index == [k \in 1..Len(CANONICAL_HEADERS) |->
                     chosen(ExactIndex(normalized, CANONICAL_HEADERS[k][2]),
                            CANONICAL_HEADERS[k][1])]
        items == [k \in 1..Len(CANONICAL_HEADERS) |->
                     IF index[k] = 0 THEN << >>
                     ELSE <<CANONICAL_HEADERS[k][1], stripped[index[k]]>>]
    IN  SelectSeq(items, LAMBDA item : item # << >>)

\* HeaderMapper(headers).resolve(required_for), lines 76-81
resolve(headers, required_for) ==
    LET result(mapping) ==
            [mapping |-> mapping,
             missing |-> SelectSeq(REQUIRED_FIELDS[required_for],
                             LAMBDA field :
                                 \A k \in 1..Len(mapping) : mapping[k][1] # field),
             extras  |-> SelectSeq(StrippedHeaders(headers),
                             LAMBDA h :
                                 \A k \in 1..Len(mapping) : mapping[k][2] # h)]
    IN  result(suggest_mapping(headers))

\* HeaderMapper(headers).suggest_mapping()
SuggestMapping(headers) ==
    /\ called = "none"
    /\ called' = "suggest_mapping"
    /\ args' = <<headers>>
    /\ ret' = suggest_mapping(headers)
    /\ UNCHANGED processVars

\* map_headers(headers, required_for)
Resolve(headers, required_for) ==
    /\ called = "none"
    /\ called' = "resolve"
    /\ args' = <<headers, required_for>>
    /\ ret' = resolve(headers, required_for)
    /\ UNCHANGED processVars

\* the longest batch given to deduplicate_within_batch on its own
MaxDedup == 3

\* deduplicate_within_batch(entries) for the entries normalize_rows makes of
\* a table
DeduplicateBatch(df) ==
    /\ called = "none"
    /\ called' = "deduplicate_within_batch"
    /\ args' = <<normalize_rows(df, "new_visit", FullMapping)>>
    /\ ret' = deduplicate_within_batch(args'[1], threshold)
    /\ UNCHANGED processVars

\* no call made yet, under the default threshold
InitCalls == InitRows /\ threshold = <<23, 25>>

NextCalls ==
    \/ \E name \in NameTexts : NormalizeName(name)
    \/ \E link \in LinkTexts, raw \in RawRows \cup {RowE} :
           ExtractHeally(link, raw)
    \/ \E headers \in HeaderLists : SuggestMapping(headers)
    \/ \E headers \in HeaderLists, required_for \in {"new_visit", "reprint"} :
           Resolve(headers, required_for)
    \/ \E df \in SeqsUpTo(RawRows, MaxDedup) : DeduplicateBatch(df)

SpecCalls == InitCalls /\ [][NextCalls]_vars

-----------------------------------------------------------------------------
(* Properties of the calls                                                 *)

\* the parts of a stripped name text around its first two commas: the text
\* before the first comma, the text between the two (to the end without a
\* second comma), and the text after the second
CommaParts(s) ==
    LET parts(c1, c2) ==
            [commas |-> IF c1 > Len(s) THEN 0 ELSE IF c2 > Len(s) THEN 1 ELSE 2,
             last   |-> SubSeq(s, 1, c1 - 1),
             first  |-> SubSeq(s, c1 + 1, c2 - 1),
             middle |-> SubSeq(s, c2 + 1, Len(s))]
        from(c1) == parts(c1, FindIn(s, c1 + 1, {","}))
    IN  from(FindIn(s, 1, {","}))

\* a text of the form Last, First or Last, First, Middle...: tokens, a
\* comma, tokens without a comma, and with a second comma tokens after it
LastFirstForm(s) ==
    /\ CommaParts(s).commas >= 1
    /\ Split(CommaParts(s).last) # << >>
    /\ Split(CommaParts(s).first) # << >>
    /\ CommaParts(s).commas = 2 => Split(CommaParts(s).middle) # << >>

\* C21: normalize_name returns ("", [missing_name]) for a blank text; for a
\* text of the form Last, First with optional middle tokens it returns the
\* tokens of First, then those of Middle, then those of Last, each
\* title-cased and joined by single blanks, with the single reason
\* name_flipped; for a text without a comma it returns its tokens
\* title-cased, in their order, joined by single blanks, with no reason.
C21_NameOutcomes ==
    called = "normalize_name" =>
        LET s == Strip(args[1])
            p == CommaParts(s)
        IN  /\ s = << >> => ret = << << >>, <<"missing_name">> >>
            /\ LastFirstForm(s) =>
                   ret = <<Join(TitleAll(Split(p.first) \o Split(p.middle)
                                             \o Split(p.last)), <<" ">>),
                           <<"name_flipped">> >>
            /\ (s # << >> /\ p.commas = 0) =>
                   ret = <<Join(TitleAll(Split(s)), <<" ">>), << >> >>

\* six digits stand at positions i..i+5 of the text
SixDigitsAt(s, i) == i + 5 <= Len(s) /\ \A k \in i..(i + 5) : s[k] \in Digits

\* the text holds a run of at least six digits
HasIdRun(s) == \E i \in 1..Len(s) : SixDigitsAt(s, i)

\* the first run of at least six digits of a text that holds one, taken to
\* its last digit
FirstIdRun(s) ==
    LET start == CHOOSE i \in 1..Len(s) :
                     SixDigitsAt(s, i) /\ \A j \in 1..(i - 1) : ~SixDigitsAt(s, j)
        stop  == CHOOSE e \in 1..Len(s) :
                     /\ e >= start + 5
                     /\ \A k \in start..e : s[k] \in Digits
                     /\ e < Len(s) => s[e + 1] \notin Digits
    IN  SubSeq(s, start, stop)

\* the string-valued fields of a raw row, in column order
TextFields(raw) == SelectSeq(RawValues(raw), LAMBDA v : v # None)

\* C22: extract_heally has three outcomes.  A link field that is not blank
\* gives the link without its leading and trailing blanks, its first run
\* of at least six digits as id (None without one) and no reasons.  A
\* blank or absent link field with a run of at least six digits in some
\* string field of the raw row gives the link prefix followed by the id,
\* the id (the first run of the first such field) and the single reason
\* constructed_heally_link.  A blank link field without such a run gives
\* "N/A", no id and the single reason missing_heally_link.
C22_ThreeOutcomes ==
    called = "extract_heally" =>
        LET link   == args[1]
            fields == TextFields(args[2])
            given  == link # None /\ Strip(link) # << >>
            found  == \E k \in 1..Len(fields) : HasIdRun(fields[k])
            first  == CHOOSE k \in 1..Len(fields) :
                          HasIdRun(fields[k])
                              /\ \A j \in 1..(k - 1) : ~HasIdRun(fields[j])
        IN  /\ given =>
                   /\ ret[1] = Strip(link)
                   /\ ret[2] = IF HasIdRun(Strip(link))
                               THEN FirstIdRun(Strip(link)) ELSE None
                   /\ ret[3] = << >>
            /\ (~given /\ found) =>
                   /\ ret[2] = FirstIdRun(fields[first])
                   /\ ret[1] = HeallyLinkPrefix \o ret[2]
                   /\ ret[3] = <<"constructed_heally_link">>
            /\ (~given /\ ~found) =>
                   ret = <<<<"N","/","A">>, None, <<"missing_heally_link">> >>

\* C22: a link field given with blanks around it was returned without them,
\* with its id
C22_Witness ==
    /\ called = "extract_heally"
    /\ args[1] # None
    /\ Strip(args[1]) # args[1]
    /\ ret[1] = Strip(args[1])
    /\ ret[2] # None
    /\ ret[3] = << >>

\* the mapping a call of suggest_mapping or of resolve returned
ReturnedMapping == IF called = "resolve" THEN ret.mapping ELSE ret

\* the header the returned mapping gives a canonical field, None without
MappedTo(canonical) ==
    IF \E k \in 1..Len(ReturnedMapping) : ReturnedMapping[k][1] = canonical
    THEN (CHOOSE item \in Elems(ReturnedMapping) : item[1] = canonical)[2]
    ELSE None

\* a header as the mapper compares it: without surrounding blanks, in lower
\* case, blanks replaced by underscores
Folded(h) == [i \in 1..Len(Strip(h)) |->
                 IF Strip(h)[i] = " " THEN "_" ELSE Lower(Strip(h))[i]]

\* the positions of the headers that are an alias of the k-th canonical field
AliasAt(headers, k) ==
    {i \in 1..Len(headers) : Folded(headers[i]) \in CANONICAL_HEADERS[k][2]}

\* the positions of the headers of similarity at least 0.85 to the k-th
\* canonical name
CloseAt(headers, k) ==
    {i \in 1..Len(headers) :
        FracGe(CloseRatio[<<Folded(headers[i]), CANONICAL_HEADERS[k][1]>>],
               Cutoff)}

\* the least position of a non-empty set of positions
Least(S) == CHOOSE i \in S : \A j \in S : i <= j

\* C23: in the mapping suggest_mapping returns, a canonical field with a
\* header that equals one of its aliases (trimmed, lower-cased, blanks
\* replaced by underscores) is mapped to the first such header of the list
\* (in its trimmed form); a field without one is mapped to a header only
\* if some header is of similarity at least 0.85 to its canonical name, and
\* then to such a header; a field with neither has no entry.
C23_ExactBeforeClose ==
    called \in {"suggest_mapping", "resolve"} =>
        \A k \in 1..Len(CANONICAL_HEADERS) :
            LET headers == args[1]
                exact   == AliasAt(headers, k)
                close   == CloseAt(headers, k)
                mapped  == MappedTo(CANONICAL_HEADERS[k][1])
            IN  /\ exact # {} => mapped = Strip(headers[Least(exact)])
                /\ (exact = {} /\ close # {}) =>
                       \E i \in close : mapped = Strip(headers[i])
                /\ (exact = {} /\ close = {}) => mapped = None

\* C23: suggest_mapping was given a near miss of "name", then two aliases
\* of name, and mapped name to the first alias
C23_Witness ==
    /\ called = "suggest_mapping"
    /\ args[1] = <<<<"n","a","m","e","s">>, <<"p","a","t","i","e","n","t">>, <<"n","a","m","e">>>>
    /\ MappedTo(<<"n","a","m","e">>) = <<"p","a","t","i","e","n","t">>

\* the canonical fields that are keys of the returned mapping
MappedFields == {ReturnedMapping[k][1] : k \in 1..Len(ReturnedMapping)}

\* the headers that are values of the returned mapping
MappedHeaders == {ReturnedMapping[k][2] : k \in 1..Len(ReturnedMapping)}

\* C24: in the result of resolve(headers, list_type), missing is the
\* required fields of the list type that are no key of the mapping, in
\* their order, so that every required field is either mapped or missing;
\* extras is the headers given that are the value of no mapping entry, in
\* their order; and every value of the mapping is one of the headers given.
C24_MissingAndExtras ==
    called = "resolve" =>
        /\ ret.missing = SelectSeq(REQUIRED_FIELDS[args[2]],
                                   LAMBDA field : field \notin MappedFields)
        /\ \A i \in 1..Len(REQUIRED_FIELDS[args[2]]) :
               REQUIRED_FIELDS[args[2]][i] \in MappedFields
                   <=> REQUIRED_FIELDS[args[2]][i] \notin Elems(ret.missing)
        /\ ret.extras = SelectSeq(args[1], LAMBDA h : h \notin MappedHeaders)
        /\ MappedHeaders \subseteq Elems(args[1])

\* C25: deduplicate_within_batch reports every record at most once; a
\* record is reported iff one of the three rules (same key, same id,
\* similarity at or above the threshold) holds between it and a record
\* before it in the batch; the matched record of its report is the earliest
\* such record, and the rule is the first of exact key, id, fuzzy that
\* holds for that pair, whatever holds for later records.
C25_EarliestSeenMatch ==
    called = "deduplicate_within_batch" =>
        \A i \in 1..Len(args[1]) :
            LET entry == args[1][i]
                hits  == {j \in 1..(i - 1) : BatchMatch(entry, args[1][j])}
                mine  == {k \in 1..Len(ret[2]) : ret[2][k].entry = i}
            IN  /\ Cardinality(mine) <= 1
                /\ mine = {} <=> hits = {}
                /\ \A k \in mine :
                       /\ ret[2][k].matched.where = "batch"
                       /\ ret[2][k].matched.at = Least(hits)
                       /\ ret[2][k].matched.at < i
                       /\ ret[2][k].rule =
                              IF SameKey(entry, args[1][Least(hits)])
                              THEN "exact_key_batch"
                              ELSE IF SameId(entry, args[1][Least(hits)])
                              THEN "heally_id_batch"
                              ELSE "fuzzy_batch"

\* C25: the third record of a batch has the key of the second and was
\* reported as a fuzzy match of the first
C25_Witness ==
    /\ called = "deduplicate_within_batch"
    /\ Len(args[1]) = 3
    /\ SameKey(args[1][3], args[1][2])
    /\ \E k \in 1..Len(ret[2]) :
           /\ ret[2][k].entry = 3
           /\ ret[2][k].matched.at = 1
           /\ ret[2][k].rule = "fuzzy_batch"

\* C26: validate_and_normalize_address given a state that is not blank
\* returns the normalization of that state (its code, or the text stripped
\* and upper-cased), never the state of the ZIP table; when moreover the
\* city is blank, the zip is in the table and the table's state is another
\* one, the reasons hold zip_state_mismatch.  A returned state that is not
\* the normalization of the input is the table's state for a blank input
\* state.
C26_StateKept ==
    called = "validate_and_normalize_address" =>
        /\ ~Blank(args[3]) =>
               /\ ret.state = StateOutcome(Strip(args[3]))[1]
               /\ (/\ Blank(args[2])
                   /\ FivePart(args[4]) \in TableZips
                   /\ TableEntry(FivePart(args[4]))[2] # ret.state)
                      => HasReason("zip_state_mismatch")
        /\ Blank(args[3]) =>
               ret.state = IF FivePart(args[4]) \in TableZips
                           THEN TableEntry(FivePart(args[4]))[2] ELSE << >>

\* C26: a call with a blank city, a state that is no USPS state and a zip
\* of the table kept the state given and reported the mismatch
C26_Witness ==
    /\ called = "validate_and_normalize_address"
    /\ Blank(args[2])
    /\ Strip(args[3]) = <<"z","z">>
    /\ FivePart(args[4]) \in TableZips
    /\ ret.state = <<"Z","Z">>
    /\ ret.city = TableEntry(FivePart(args[4]))[1]
    /\ HasReason("zip_state_mismatch")

\* the processor is built and no other is: every run was its own
OnlyProcessor(p) == built[p] /\ \A q \in Procs \ {p} : ~built[q]

\* between the calls of a processor that alone uses the store, the ids of
\* the items of its history are the ids of the rows of table entries, each
\* once
HistoryIsStore ==
    \A p \in Procs :
        (pc = "idle" /\ OnlyProcessor(p)) =>
            /\ Len(cache[p]) = Len(db.entries)
            /\ {cache[p][k].entry_id : k \in 1..Len(cache[p])}
                   = 1..Len(db.entries)

\* the step that ends a call: a run that raises leaves the rows and the
\* history as the call found them, a run that returns adds to the history
\* the ids of the rows it committed
RunAddsToBoth ==
    (pc' = "idle" /\ pc # "idle") =>
        /\ outcome' = "raised" =>
               db'.entries = dbAtCall.entries /\ cache'[cur] = cacheAtCall
        /\ outcome' = "returned" =>
               {cache'[cur][k].entry_id :
                    k \in (Len(cacheAtCall) + 1)..Len(cache'[cur])}
                   = (Len(dbAtCall.entries) + 1)..Len(db'.entries)

\* C27: for a processor that alone uses the store, after any sequence of
\* process calls the ids in its history are the ids of the rows committed
\* to table entries; a run that returns adds the same new ids to both and
\* a run that raises adds none to either.
C27_HistoryIsStore == []HistoryIsStore /\ [][RunAddsToBoth]_vars

\* C27: the only processor has committed a run with a rejected record and
\* then run again, the store raising after the first insert of that run
C27_Witness ==
    /\ pc = "idle"
    /\ OnlyProcessor("p1")
    /\ outcome = "raised"
    /\ failed > 1
    /\ Len(db.batches) = 1
    /\ cache["p1"] # << >>
    /\ \E k \in 1..Len(cache["p1"]) :
           cache["p1"][k].entry.validation_status = "rejected"

\* the reports of the history pass for one entry against a history, as
\* (rule, score, matched store id)
HistoryOutcome(entry, history) ==
    LET reports == detect_duplicates(<<entry>>, history, threshold)[2]
    IN  [k \in 1..Len(reports) |->
            <<reports[k].rule, reports[k].score, reports[k].matched_entry_id>>]

\* C28: between the calls of a processor that alone uses the store, the
\* history pass reports for every record the same rule, score and matched
\* store id against the processor's history, extended in memory by its
\* runs, as against the history a processor constructed now loads from the
\* store; so a record with a ZIP+4 that was persisted is matched by
\* exact_key against both.
C28_SameAsReloaded ==
    \A p \in Procs :
        (pc = "idle" /\ OnlyProcessor(p)) =>
            \A raw \in RawRows :
                LET same(entry) ==
                        HistoryOutcome(entry, cache[p])
                            = HistoryOutcome(entry, LoadedHistory(db))
                IN  same(NormalizeRowTable["new_visit", FullMapping.mapping, raw])

\* C29: the mapping suggest_mapping returns, and with it the mapping of
\* resolve, gives no header to two canonical fields.
C29_MappingInjective ==
    called \in {"suggest_mapping", "resolve"} =>
        \A k, l \in 1..Len(ReturnedMapping) :
            ReturnedMapping[k][2] = ReturnedMapping[l][2] => k = l

-----------------------------------------------------------------------------
(* process() called with header mappings that report missing columns        *)

\* a mapping of the tables above that leaves the city column out
CityMissing ==
    [mapping |-> [FullMapping.mapping EXCEPT !.city = Unmapped],
     missing |-> << <<"c","i","t","y">> >>,
     extras  |-> << >>]

\* a mapping of the tables above that leaves the state and zip columns out
StateZipMissing ==
    [mapping |-> [FullMapping.mapping EXCEPT !.state = Unmapped,
                                             !.zip = Unmapped],
     missing |-> << <<"s","t","a","t","e">>, <<"z","i","p">> >>,
     extras  |-> << >>]

\* one object passed for both tables, or one object for each
MappingObjects ==
    LET results == {FullMapping, CityMissing, StateZipMissing}
    IN  [1..1 -> results] \cup [1..2 -> results]

NextMappings ==
    \/ \E n \in SeqsUpTo({RowA}, 1), r \in SeqsUpTo({RowC}, 1),
          objects \in MappingObjects : Process("p1", n, r, objects)
    \/ DetectDuplicates
    \/ DeduplicateWithinBatch
    \/ \E fail \in 0..1 : Persist(fail)
    \/ Return

SpecMappings == InitCalls /\ [][NextMappings]_vars

\* C30: when a call of process has ended, by returning or by raising, the
\* mapping, missing and extras of the objects passed as new_visit_mapping and
\* as reprint_mapping are what they were when the call started
C30_MappingsUnchanged ==
    (pc = "idle" /\ outcome \in {"returned", "raised"}) =>
        /\ NewVisitMapping(mapping_objects) = NewVisitMapping(mappingsAtCall)
        /\ ReprintMapping(mapping_objects) = ReprintMapping(mappingsAtCall)

=============================================================================
